---- MODULE Spec2Model ----
(***************************************************************************)
(* Sentinel KYC back-office: the entity store, the status Transition Guard *)
(* of Alert / Case / Document, case notes and the read endpoints.          *)
(*                                                                         *)
(* Dates are day offsets relative to the seeding day, as in seed.py d(n).  *)
(* A request handler is one action (specification Spec); the handlers'     *)
(* database round trips are separate steps of concurrent workers in        *)
(* specification SpecRace.                                                 *)
(***************************************************************************)
EXTENDS Integers, Sequences, FiniteSets, TLC

VARIABLES
    customers,   \* table customers:     id -> row
    alerts,      \* table alerts:        id -> row
    documents,   \* table documents:     id -> row
    cases,       \* table cases:         id -> row
    notes,       \* table case_notes:    sequence of rows, id = position
    activity,    \* table activity_logs: sequence of rows, id = position
    clock,       \* the wall clock read by datetime.utcnow()
    last,        \* the request served last and its response (Spec)
    pc,          \* per worker: position inside its handler (SpecRace)
    rq,          \* per worker: the request being served
    cur,         \* per worker: the row state loaded by the handler's SELECT
    resp,        \* per worker: the response of its last finished request
    boot,        \* the lifespan startup: its position and the create_all attempt
    stream       \* the narrative stream: generator position, upstream, fragments

store == <<customers, alerts, documents, cases, notes, activity>>
workerVars == <<pc, rq, cur, resp>>
sideVars == <<boot, stream>>
vars == <<customers, alerts, documents, cases, notes, activity, clock, last,
          pc, rq, cur, resp, boot, stream>>

\* ------------------------------------------------------------------ bounds
MaxNotes == 3
MaxFragments == 3
MaxAlerts == 9
MaxClock == 3

\* ------------------------------------------------------------- value model
NULL == [null |-> TRUE]
Date(n) == [day |-> n]
IsoFormat(d) == [iso |-> d.day]
IsoOrNone(d) == IF d = NULL THEN NULL ELSE IsoFormat(d)

EmptyDict == << >>
DictGet(d, k, default) == IF k \in DOMAIN d THEN d[k] ELSE default
\* variant: the membership test looks at the dict's keys, not its values
ValuesAsKeys(d) == DOMAIN d
Values(d) == {d[k] : k \in DOMAIN d}

AlertStatuses == {"Open", "Under Review", "Resolved", "Dismissed"}
CaseStatuses == {"Open", "In Progress", "Escalated", "Closed"}
DocStatuses == {"Pending", "Verified", "Expired", "Rejected"}

\* ------------------------------------------------------ transition tables
\* variant: a Resolved alert may also be dismissed directly
ALERT_TRANSITIONS_ResolvedDismiss ==
    [s \in AlertStatuses |->
       CASE s = "Open" -> ("Begin Review" :> "Under Review") @@ ("Dismiss" :> "Dismissed")
         [] s = "Under Review" -> ("Resolve" :> "Resolved") @@ ("Dismiss" :> "Dismissed")
         [] s = "Resolved" -> ("Reopen" :> "Open") @@ ("Dismiss" :> "Dismissed")
         [] s = "Dismissed" -> ("Reopen" :> "Open")]

ALERT_TRANSITIONS ==
    [s \in AlertStatuses |->
       CASE s = "Open" -> ("Begin Review" :> "Under Review") @@ ("Dismiss" :> "Dismissed")
         [] s = "Under Review" -> ("Resolve" :> "Resolved") @@ ("Dismiss" :> "Dismissed")
         [] s = "Resolved" -> ("Reopen" :> "Open")
         [] s = "Dismissed" -> ("Reopen" :> "Open")]

\* variant: a Closed case cannot be reopened
CASE_TRANSITIONS_NoReopen ==
    [s \in CaseStatuses |->
       CASE s = "Open" -> ("Start Work" :> "In Progress") @@ ("Escalate" :> "Escalated")
         [] s = "In Progress" -> ("Escalate" :> "Escalated") @@ ("Close Case" :> "Closed")
         [] s = "Escalated" -> ("Close Case" :> "Closed")
         [] s = "Closed" -> EmptyDict]

CASE_TRANSITIONS ==
    [s \in CaseStatuses |->
       CASE s = "Open" -> ("Start Work" :> "In Progress") @@ ("Escalate" :> "Escalated")
         [] s = "In Progress" -> ("Escalate" :> "Escalated") @@ ("Close Case" :> "Closed")
         [] s = "Escalated" -> ("Close Case" :> "Closed")
         [] s = "Closed" -> ("Reopen" :> "Open")]

\* variant: a Verified document may go back to Pending
DOC_TRANSITIONS_VerifiedPending ==
    [s \in DocStatuses |->
       CASE s = "Pending" -> ("Verify" :> "Verified") @@ ("Reject" :> "Rejected")
                             @@ ("Mark Expired" :> "Expired")
         [] s = "Verified" -> ("Mark Expired" :> "Expired") @@ ("Request New" :> "Pending")
         [] s = "Expired" -> ("Request New" :> "Pending")
         [] s = "Rejected" -> ("Request New" :> "Pending")]

DOC_TRANSITIONS ==
    [s \in DocStatuses |->
       CASE s = "Pending" -> ("Verify" :> "Verified") @@ ("Reject" :> "Rejected")
                             @@ ("Mark Expired" :> "Expired")
         [] s = "Verified" -> ("Mark Expired" :> "Expired")
         [] s = "Expired" -> ("Request New" :> "Pending")
         [] s = "Rejected" -> ("Request New" :> "Pending")]

\* ------------------------------------------------------------ seeded store
SeedCustomers ==
    <<[customer_id |-> "CUS-10001", legal_name |-> "Meridian Capital Holdings Ltd",
       business_type |-> "Holding Company", jurisdiction |-> "Cayman Islands",
       risk_tier |-> "High", kyc_status |-> "Under Review",
       onboarding_date |-> Date(-820), last_review_date |-> Date(-45),
       next_review_due |-> Date(-10), assigned_analyst |-> "Sarah Chen",
       risk_factors |-> <<"High-risk jurisdiction: Cayman Islands",
                          "Significant unexplained wealth indicators">>],
      [customer_id |-> "CUS-10002", legal_name |-> "Oaktree Trust Services AG",
       business_type |-> "Trust", jurisdiction |-> "Switzerland",
       risk_tier |-> "High", kyc_status |-> "Verified",
       onboarding_date |-> Date(-650), last_review_date |-> Date(-30),
       next_review_due |-> Date(60), assigned_analyst |-> "Priya Patel",
       risk_factors |-> <<"Frequent changes in beneficial ownership">>]>>

SeedAlerts ==
    <<[alert_id |-> "ALT-00001", alert_type |-> "Unusual Transaction Volume",
       customer_id |-> 1, severity |-> "Critical", status |-> "Open",
       created_date |-> Date(-5), assigned_analyst |-> "Sarah Chen"],
      [alert_id |-> "ALT-00019", alert_type |-> "Unusual Transaction Volume",
       customer_id |-> 2, severity |-> "High", status |-> "Under Review",
       created_date |-> Date(-35), assigned_analyst |-> "Priya Patel"]>>

\* more of the seeded alerts
MoreSeedAlerts ==
    <<[alert_id |-> "ALT-00002", alert_type |-> "Sanctions Match",
       customer_id |-> 2, severity |-> "Critical", status |-> "Open",
       created_date |-> Date(-3), assigned_analyst |-> "Marcus Webb"],
      [alert_id |-> "ALT-00003", alert_type |-> "PEP Match",
       customer_id |-> 1, severity |-> "High", status |-> "Open",
       created_date |-> Date(-10), assigned_analyst |-> "Sarah Chen"],
      [alert_id |-> "ALT-00004", alert_type |-> "Structuring Pattern",
       customer_id |-> 2, severity |-> "Critical", status |-> "Open",
       created_date |-> Date(-2), assigned_analyst |-> "David Kim"],
      [alert_id |-> "ALT-00005", alert_type |-> "Unusual Transaction Volume",
       customer_id |-> 1, severity |-> "High", status |-> "Open",
       created_date |-> Date(-8), assigned_analyst |-> "David Kim"],
      [alert_id |-> "ALT-00006", alert_type |-> "Document Expired",
       customer_id |-> 2, severity |-> "Medium", status |-> "Open",
       created_date |-> Date(-15), assigned_analyst |-> "David Kim"],
      [alert_id |-> "ALT-00007", alert_type |-> "Address Mismatch",
       customer_id |-> 1, severity |-> "Medium", status |-> "Open",
       created_date |-> Date(-12), assigned_analyst |-> "James Morrison"],
      [alert_id |-> "ALT-00008", alert_type |-> "Sanctions Match",
       customer_id |-> 2, severity |-> "High", status |-> "Open",
       created_date |-> Date(-7), assigned_analyst |-> "Elena Rossi"],
      [alert_id |-> "ALT-00009", alert_type |-> "PEP Match",
       customer_id |-> 1, severity |-> "High", status |-> "Open",
       created_date |-> Date(-4), assigned_analyst |-> "Robert Torres"],
      [alert_id |-> "ALT-00010", alert_type |-> "Unusual Transaction Volume",
       customer_id |-> 2, severity |-> "Medium", status |-> "Open",
       created_date |-> Date(-18), assigned_analyst |-> "Priya Patel"]>>

SeedDocuments ==
    <<[document_id |-> "DOC-00001", doc_type |-> "Passport", customer_id |-> 1,
       issue_date |-> Date(-1800), expiry_date |-> Date(5),
       verification_status |-> "Verified"]>>

SeedCases ==
    <<[case_id |-> "CAS-00001", case_type |-> "Enhanced Due Diligence",
       customer_id |-> 1, priority |-> "Critical", status |-> "Open",
       opened_date |-> Date(-10), due_date |-> Date(5),
       assigned_analyst |-> "Sarah Chen"],
      [case_id |-> "CAS-00011", case_type |-> "Periodic Review",
       customer_id |-> 2, priority |-> "Medium", status |-> "In Progress",
       opened_date |-> Date(-35), due_date |-> Date(10),
       assigned_analyst |-> "Priya Patel"]>>

\* created_at of seeded rows lies before the first reading of the clock
SeedNotes ==
    <<[case_id |-> 1, content |-> "Initiated enhanced due diligence review",
       analyst_name |-> "Sarah Chen", created_at |-> 0]>>

SeedActivity ==
    <<[action |-> "Customer CUS-10001 risk tier review initiated",
       analyst_name |-> "Sarah Chen", created_at |-> -1],
      [action |-> "Customer CUS-10002 beneficial ownership structure verified - Oaktree Trust Services",
       analyst_name |-> "Priya Patel", created_at |-> -42]>>

SeedAnalysts ==
    <<"Sarah Chen", "James Morrison", "Priya Patel", "Marcus Webb",
      "Elena Rossi", "David Kim", "Lisa Chang", "Robert Torres">>

Workers == {"w1", "w2"}
NoRequest == [op |-> "none", id |-> "", status |-> ""]
NoRow == [status |-> ""]
NoResponse == [code |-> 0, body |-> [status |-> ""]]
Response(code, body) == [code |-> code, body |-> body]
Served(op, id, arg, code, body) ==
    [op |-> op, id |-> id, arg |-> arg, code |-> code, body |-> body]

\* the startup over and the application serving requests
Serving == [pc |-> "serving", attempt |-> 0, calls |-> 1, tables |-> TRUE]

\* no narrative stream under way
NoStream ==
    [pc |-> "idle", out |-> <<>>, up |-> <<>>, upstream |-> "none",
     connected |-> TRUE, observed |-> FALSE, failure |-> "none"]

Init ==
    /\ customers = SeedCustomers
    /\ alerts = SeedAlerts
    /\ documents = SeedDocuments
    /\ cases = SeedCases
    /\ notes = SeedNotes
    /\ activity = SeedActivity
    /\ clock = 1
    /\ last = Served("none", "", "", 0, NULL)
    /\ pc = [w \in Workers |-> "idle"]
    /\ rq = [w \in Workers |-> NoRequest]
    /\ cur = [w \in Workers |-> NoRow]
    /\ resp = [w \in Workers |-> NoResponse]
    /\ boot = Serving
    /\ stream = NoStream

\* The seed holds no document without an expiry date, but the column is
\* nullable: the list queries are also run on stores that hold two more
\* documents, with or without one.
DocumentTables ==
    {SeedDocuments}
    \cup {SeedDocuments \o
            <<[document_id |-> "DOC-00002", doc_type |-> "Business License",
               customer_id |-> 2, issue_date |-> Date(-350), expiry_date |-> e2,
               verification_status |-> "Pending"],
              [document_id |-> "DOC-00003", doc_type |-> "Tax Registration",
               customer_id |-> 2, issue_date |-> Date(-360), expiry_date |-> e3,
               verification_status |-> "Expired"]>> :
          e2 \in {NULL, Date(10)}, e3 \in {NULL, Date(5), Date(-15)}}

\* the alert table with more of the seeded rows, their customers folded onto the
\* two that are modelled

AlertTables ==
    {SeedAlerts \o SubSeq(MoreSeedAlerts, 1, n) :
       n \in {0, MaxAlerts - 3, MaxAlerts - 2} \cap (0..Len(MoreSeedAlerts))}

InitSearch ==
    /\ customers = SeedCustomers
    /\ alerts \in AlertTables
    /\ documents = SeedDocuments
    /\ cases = SeedCases
    /\ notes = SeedNotes
    /\ activity = SeedActivity
    /\ clock = 1
    /\ last = Served("none", "", "", 0, NULL)
    /\ pc = [w \in Workers |-> "idle"]
    /\ rq = [w \in Workers |-> NoRequest]
    /\ cur = [w \in Workers |-> NoRow]
    /\ resp = [w \in Workers |-> NoResponse]
    /\ boot = Serving
    /\ stream = NoStream

\* one more of the seeded customers, of another risk tier
MoreSeedCustomers ==
    <<[customer_id |-> "CUS-10011", legal_name |-> "Sovereign Wealth Partners LLC",
       business_type |-> "Investment Fund", jurisdiction |-> "Delaware",
       risk_tier |-> "Medium", kyc_status |-> "Verified",
       onboarding_date |-> Date(-550), last_review_date |-> Date(-40),
       next_review_due |-> Date(50), assigned_analyst |-> "Sarah Chen",
       risk_factors |-> <<"Multiple investment vehicles under management">>]>>

\* the rows of a table that belong to the first n customers
OfCustomers(table, n) ==
    LET Kept(row) == row.customer_id <= n IN SelectSeq(table, Kept)

\* a store of zero to three customers with the rows that belong to them
InitMetrics ==
    \E n \in 0..3, table \in AlertTables :
        /\ customers = SubSeq(SeedCustomers \o MoreSeedCustomers, 1, n)
        /\ alerts = OfCustomers(table, n)
        /\ documents = OfCustomers(SeedDocuments, n)
        /\ cases = OfCustomers(SeedCases, n)
        /\ notes = IF n = 0 THEN <<>> ELSE SeedNotes
        /\ activity = IF n = 0 THEN <<>> ELSE SeedActivity
        /\ clock = 1
        /\ last = Served("none", "", "", 0, NULL)
        /\ pc = [w \in Workers |-> "idle"]
        /\ rq = [w \in Workers |-> NoRequest]
        /\ cur = [w \in Workers |-> NoRow]
        /\ resp = [w \in Workers |-> NoResponse]
        /\ boot = Serving
        /\ stream = NoStream

InitLists ==
    /\ customers = SeedCustomers
    /\ alerts = SeedAlerts
    /\ documents \in DocumentTables
    /\ cases = SeedCases
    /\ notes = SeedNotes
    /\ activity = SeedActivity
    /\ clock = 1
    /\ last = Served("none", "", "", 0, NULL)
    /\ pc = [w \in Workers |-> "idle"]
    /\ rq = [w \in Workers |-> NoRequest]
    /\ cur = [w \in Workers |-> NoRow]
    /\ resp = [w \in Workers |-> NoResponse]
    /\ boot = Serving
    /\ stream = NoStream

\* ------------------------------------------------------------ request data
AlertIds == {"ALT-00001", "ALT-00019", "ALT-99999"}
CaseIds == {"CAS-00001", "CAS-00011", "CAS-99999"}
\* the cases status updates are sent for
UpdatedCaseIds == {"CAS-00001", "CAS-99999"}
DocumentIds == {"DOC-00001", "DOC-99999"}
CustomerIds == {"CUS-10001", "CUS-10002", "CUS-99999"}

\* requested status strings: the entity's statuses, an action label of the
\* transition table and a string that is a status of another entity only
AlertRequests == AlertStatuses \cup {"Begin Review", "Closed"}
CaseRequests == CaseStatuses \cup {"Reopen", "Resolved"}
DocRequests == DocStatuses \cup {"Verify", "Open"}

\* query.filter(col == value).first() on a unique column
First(table, col, value) ==
    LET hits == {i \in DOMAIN table : table[i][col] = value}
    IN  IF hits = {} THEN 0 ELSE CHOOSE i \in hits : \A j \in hits : i <= j

\* the ascending text order of the values that are sort keys of a query
TextOrder ==
    <<"ALT-00001", "ALT-00019", "Business License", "CAS-00001", "CAS-00011",
      "CUS-10001", "CUS-10002", "Cayman Islands", "Closed", "Critical", "DOC-00001",
      "DOC-00002", "DOC-00003", "Dismissed", "Enhanced Due Diligence", "Escalated",
      "Expired", "High", "Holding Company", "In Progress", "Low", "Medium",
      "Meridian Capital Holdings Ltd", "Oaktree Trust Services AG", "Open", "Passport",
      "Pending", "Periodic Review", "Priya Patel", "Rejected", "Resolved",
      "Sarah Chen", "Switzerland", "Tax Registration", "Trust", "Under Review",
      "Unusual Transaction Volume", "Verified">>
TextRank(t) == CHOOSE i \in DOMAIN TextOrder : TextOrder[i] = t

\* the calendar: a date as year, month and day, and as a count of days
\* (date.toordinal() up to a constant), so that date + timedelta(days) and
\* extract(year), extract(month) are computed as the library computes them
DaysFromCivil(year, month, day) ==
    LET y == IF month <= 2 THEN year - 1 ELSE year
        era == y \div 400
        yoe == y - era * 400
        mp == (month + 9) % 12
        doy == (153 * mp + 2) \div 5 + day - 1
        doe == yoe * 365 + yoe \div 4 - yoe \div 100 + doy
    IN  era * 146097 + doe

CivilFromDays(z) ==
    LET era == z \div 146097
        doe == z - era * 146097
        yoe == (doe - doe \div 1460 + doe \div 36524 - doe \div 146096) \div 365
        doy == doe - (365 * yoe + yoe \div 4 - yoe \div 100)
        mp == (5 * doy + 2) \div 153
        month == IF mp < 10 THEN mp + 3 ELSE mp - 9
    IN  [year |-> yoe + era * 400 + (IF month <= 2 THEN 1 ELSE 0),
         month |-> month,
         day |-> doy - (153 * mp + 2) \div 5 + 1]

\* TODAY of the seed run, which the seeded dates are offsets from
SeedToday == [year |-> 2024, month |-> 1, day |-> 10]

\* the calendar date of a stored date; SeedCivil is the conversion worked out
\* once for the offsets of the seeded alerts
SeedOrdinal == DaysFromCivil(SeedToday.year, SeedToday.month, SeedToday.day)

SeedCivil == [n \in -60..0 |-> CivilFromDays(SeedOrdinal + n)]

Civil(d) ==
    IF d.day \in DOMAIN SeedCivil THEN SeedCivil[d.day]
    ELSE CivilFromDays(SeedOrdinal + d.day)

\* the dates the requests are served on: the seed's day and the days after it
MaxElapsedDays == 200
Todays == {CivilFromDays(SeedOrdinal + n) : n \in 0..MaxElapsedDays}

\* strings, computed character by character
Char(s, i) == SubSeq(s, i, i)

UpperCase == "ABCDEFGHIJKLMNOPQRSTUVWXYZ"
LowerCase == "abcdefghijklmnopqrstuvwxyz"

LowerChar(c) ==
    IF \E i \in 1..Len(UpperCase) : Char(UpperCase, i) = c
    THEN Char(LowerCase, CHOOSE i \in 1..Len(UpperCase) : Char(UpperCase, i) = c)
    ELSE c

\* str.lower()
RECURSIVE Lower(_)
Lower(s) == IF s = "" THEN "" ELSE LowerChar(Head(s)) \o Lower(Tail(s))

\* str.strip(), the whitespace being the space character
Strip(s) ==
    LET kept == {i \in 1..Len(s) : Char(s, i) # " "}
    IN  IF kept = {} THEN ""
        ELSE SubSeq(s, CHOOSE i \in kept : \A j \in kept : i <= j,
                       CHOOSE i \in kept : \A j \in kept : i >= j)

\* str.split(sep) for a separator of one character
RECURSIVE Split(_, _)
Split(s, sep) ==
    LET at == {i \in 1..Len(s) : Char(s, i) = sep}
    IN  IF at = {} THEN <<s>>
        ELSE LET i == CHOOSE i \in at : \A j \in at : i <= j
             IN  <<SubSeq(s, 1, i - 1)>> \o Split(SubSeq(s, i + 1, Len(s)), sep)

Contains(text, fragment) ==
    \E i \in 1..(Len(text) - Len(fragment) + 1) :
        SubSeq(text, i, i + Len(fragment) - 1) = fragment

\* a LIKE pattern read character by character: % stands for any run of
\* characters, _ for any one character, and a backslash makes the character
\* after it literal
RECURSIVE Tokens(_)
Tokens(pattern) ==
    IF pattern = "" THEN <<>>
    ELSE IF Char(pattern, 1) = "\\" /\ Len(pattern) > 1
    THEN <<[kind |-> "char", char |-> Char(pattern, 2)]>>
         \o Tokens(SubSeq(pattern, 3, Len(pattern)))
    ELSE IF Char(pattern, 1) = "%"
    THEN <<[kind |-> "any", char |-> ""]>> \o Tokens(Tail(pattern))
    ELSE IF Char(pattern, 1) = "_"
    THEN <<[kind |-> "one", char |-> ""]>> \o Tokens(Tail(pattern))
    ELSE <<[kind |-> "char", char |-> Char(pattern, 1)]>> \o Tokens(Tail(pattern))

\* whether the text from position i on matches the tokens from the k-th on
RECURSIVE LikeFrom(_, _, _, _)
LikeFrom(text, i, tokens, k) ==
    IF k > Len(tokens) THEN i = Len(text) + 1
    ELSE IF tokens[k].kind = "any"
    THEN \E j \in i..(Len(text) + 1) : LikeFrom(text, j, tokens, k + 1)
    ELSE /\ i <= Len(text)
         /\ tokens[k].kind = "one" \/ Char(text, i) = tokens[k].char
         /\ LikeFrom(text, i + 1, tokens, k + 1)

\* text LIKE pattern
Like(text, pattern) == LikeFrom(text, 1, Tokens(pattern), 1)

\* column.ilike(f"%{fragment}%")
Matches(text, fragment) == Like(Lower(text), "%" \o Lower(fragment) \o "%")

\* the texts of the seeded rows that the queries match against and the fragments
\* the requests send; Occurrences is Matches worked out once for these
SearchQueries == {"c", "cus", "oaktree", "zz"}

\* queries below and at the minimum length, with and without the characters
\* that a LIKE pattern reads as wildcards
SearchInputs == {"", "c", "zz", "__", "%%", "alt", "ALT-0000", "sarah", "oaktree", "DOC"}

SearchTexts ==
    UNION {{c.customer_id, c.legal_name, c.assigned_analyst} :
             c \in {SeedCustomers[i] : i \in DOMAIN SeedCustomers}}
    \cup UNION {{a.alert_id, a.assigned_analyst} :
                  a \in {SeedAlerts[i] : i \in DOMAIN SeedAlerts}
                        \cup {MoreSeedAlerts[i] : i \in DOMAIN MoreSeedAlerts}}
    \cup UNION {{k.case_id, k.assigned_analyst} :
                  k \in {SeedCases[i] : i \in DOMAIN SeedCases}}
    \cup {SeedDocuments[i].document_id : i \in DOMAIN SeedDocuments}
    \cup {SeedActivity[i].action : i \in DOMAIN SeedActivity}

SearchFragments ==
    SearchQueries \cup SearchInputs
    \cup UNION {{c.customer_id, c.legal_name} :
                  c \in {SeedCustomers[i] : i \in DOMAIN SeedCustomers}}

Occurrences ==
    {p \in {<<t, f>> : t \in SearchTexts, f \in SearchFragments} : Matches(p[1], p[2])}

ILike(text, fragment) ==
    IF text \in SearchTexts /\ fragment \in SearchFragments
    THEN <<text, fragment>> \in Occurrences
    ELSE Matches(text, fragment)

\* variant: NULL sorts as the smallest value
DateKey_NullSmallest(d) == IF d = NULL THEN -1000000 ELSE d.day

\* ORDER BY of a nullable date column: PostgreSQL sorts NULL as the largest value
DateKey(d) == IF d = NULL THEN 1000000 ELSE d.day

\* ---------------------------------------------------------------- alerts
serialize_alert(id, a, cust) ==
    [id |-> id, alert_id |-> a.alert_id, alert_type |-> a.alert_type,
     customer_id |-> cust[a.customer_id].customer_id,
     customer_name |-> cust[a.customer_id].legal_name,
     severity |-> a.severity, status |-> a.status,
     created_date |-> IsoOrNone(a.created_date),
     assigned_analyst |-> a.assigned_analyst]

\* variant: the error detail names the requested value twice
InvalidTransition_NoCurrent(current, new_status) ==
    [detail |-> "Invalid transition", current |-> new_status, requested |-> new_status]

InvalidTransition(current, new_status) ==
    [detail |-> "Invalid transition", current |-> current, requested |-> new_status]

update_alert_status(alert_id, new_status) ==
    LET a == First(alerts, "alert_id", alert_id) IN
    IF a = 0
    THEN /\ last' = Served("update_alert_status", alert_id, new_status, 404,
                           [detail |-> "Alert not found"])
         /\ UNCHANGED <<store, clock, workerVars, sideVars>>
    ELSE LET current == alerts[a].status
             valid_transitions == DictGet(ALERT_TRANSITIONS, current, EmptyDict)
         IN  IF new_status \notin Values(valid_transitions)
             THEN /\ last' = Served("update_alert_status", alert_id, new_status, 400,
                                    InvalidTransition(current, new_status))
                  /\ UNCHANGED <<store, clock, workerVars, sideVars>>
             ELSE /\ alerts' = [alerts EXCEPT ![a].status = new_status]
                  /\ last' = Served("update_alert_status", alert_id, new_status, 200,
                                    serialize_alert(a, alerts'[a], customers))
                  /\ UNCHANGED <<customers, documents, cases, notes, activity,
                                 clock, workerVars, sideVars>>

UpdateAlertStatus ==
    \E alert_id \in AlertIds, new_status \in AlertRequests :
        update_alert_status(alert_id, new_status)

\* variant: the read writes an audit row
get_alert_audited(alert_id) ==
    LET a == First(alerts, "alert_id", alert_id) IN
    /\ last' = IF a = 0
               THEN Served("get_alert", alert_id, "", 404, [detail |-> "Alert not found"])
               ELSE Served("get_alert", alert_id, "", 200,
                           serialize_alert(a, alerts[a], customers))
    /\ activity' = IF a = 0 THEN activity
                   ELSE Append(activity, [action |-> "Alert viewed",
                                          analyst_name |-> "Sarah Chen",
                                          created_at |-> clock])
    /\ UNCHANGED <<customers, alerts, documents, cases, notes, clock, workerVars, sideVars>>

get_alert(alert_id) ==
    LET a == First(alerts, "alert_id", alert_id) IN
    /\ last' = IF a = 0
               THEN Served("get_alert", alert_id, "", 404, [detail |-> "Alert not found"])
               ELSE Served("get_alert", alert_id, "", 200,
                           serialize_alert(a, alerts[a], customers))
    /\ UNCHANGED <<store, clock, workerVars, sideVars>>

GetAlert == \E alert_id \in AlertIds : get_alert(alert_id)

\* ----------------------------------------------------------------- cases
\* variant: the response is built from the row as loaded before the update
serialize_case_stale(id, c, cust) ==
    [id |-> id, case_id |-> c.case_id, case_type |-> c.case_type,
     customer_id |-> cust[c.customer_id].customer_id,
     customer_name |-> cust[c.customer_id].legal_name,
     priority |-> c.priority, status |-> cases[id].status,
     opened_date |-> IsoOrNone(c.opened_date),
     due_date |-> IsoOrNone(c.due_date),
     assigned_analyst |-> c.assigned_analyst]

serialize_case(id, c, cust) ==
    [id |-> id, case_id |-> c.case_id, case_type |-> c.case_type,
     customer_id |-> cust[c.customer_id].customer_id,
     customer_name |-> cust[c.customer_id].legal_name,
     priority |-> c.priority, status |-> c.status,
     opened_date |-> IsoOrNone(c.opened_date),
     due_date |-> IsoOrNone(c.due_date),
     assigned_analyst |-> c.assigned_analyst]

\* variant: the requested status is checked before the case is looked up
update_case_status_check_first(case_id, new_status) ==
    LET c == First(cases, "case_id", case_id) IN
    IF new_status \notin CaseStatuses
    THEN /\ last' = Served("update_case_status", case_id, new_status, 400,
                           InvalidTransition("", new_status))
         /\ UNCHANGED <<store, clock, workerVars, sideVars>>
    ELSE IF c = 0
    THEN /\ last' = Served("update_case_status", case_id, new_status, 404,
                           [detail |-> "Case not found"])
         /\ UNCHANGED <<store, clock, workerVars, sideVars>>
    ELSE LET current == cases[c].status
             valid_transitions == DictGet(CASE_TRANSITIONS, current, EmptyDict)
         IN  IF new_status \notin Values(valid_transitions)
             THEN /\ last' = Served("update_case_status", case_id, new_status, 400,
                                    InvalidTransition(current, new_status))
                  /\ UNCHANGED <<store, clock, workerVars, sideVars>>
             ELSE /\ cases' = [cases EXCEPT ![c].status = new_status]
                  /\ last' = Served("update_case_status", case_id, new_status, 200,
                                    serialize_case(c, cases'[c], customers))
                  /\ UNCHANGED <<customers, alerts, documents, notes, activity,
                                 clock, workerVars, sideVars>>

update_case_status(case_id, new_status) ==
    LET c == First(cases, "case_id", case_id) IN
    IF c = 0
    THEN /\ last' = Served("update_case_status", case_id, new_status, 404,
                           [detail |-> "Case not found"])
         /\ UNCHANGED <<store, clock, workerVars, sideVars>>
    ELSE LET current == cases[c].status
             valid_transitions == DictGet(CASE_TRANSITIONS, current, EmptyDict)
         IN  IF new_status \notin Values(valid_transitions)
             THEN /\ last' = Served("update_case_status", case_id, new_status, 400,
                                    InvalidTransition(current, new_status))
                  /\ UNCHANGED <<store, clock, workerVars, sideVars>>
             ELSE /\ cases' = [cases EXCEPT ![c].status = new_status]
                  /\ last' = Served("update_case_status", case_id, new_status, 200,
                                    serialize_case(c, cases'[c], customers))
                  /\ UNCHANGED <<customers, alerts, documents, notes, activity,
                                 clock, workerVars, sideVars>>

UpdateCaseStatus ==
    \E case_id \in UpdatedCaseIds, new_status \in CaseRequests :
        update_case_status(case_id, new_status)

get_case(case_id) ==
    LET c == First(cases, "case_id", case_id) IN
    /\ last' = IF c = 0
               THEN Served("get_case", case_id, "", 404, [detail |-> "Case not found"])
               ELSE Served("get_case", case_id, "", 200,
                           serialize_case(c, cases[c], customers))
    /\ UNCHANGED <<store, clock, workerVars, sideVars>>

GetCase == \E case_id \in CaseIds : get_case(case_id)

\* ------------------------------------------------------------- documents
serialize_document(id, doc, cust) ==
    [id |-> id, document_id |-> doc.document_id, doc_type |-> doc.doc_type,
     customer_id |-> cust[doc.customer_id].customer_id,
     customer_name |-> cust[doc.customer_id].legal_name,
     issue_date |-> IsoOrNone(doc.issue_date),
     expiry_date |-> IsoOrNone(doc.expiry_date),
     verification_status |-> doc.verification_status]

update_document_status(document_id, new_status) ==
    LET d == First(documents, "document_id", document_id) IN
    IF d = 0
    THEN /\ last' = Served("update_document_status", document_id, new_status, 404,
                           [detail |-> "Document not found"])
         /\ UNCHANGED <<store, clock, workerVars, sideVars>>
    ELSE LET current == documents[d].verification_status
             valid_transitions == DictGet(DOC_TRANSITIONS, current, EmptyDict)
         IN  IF new_status \notin Values(valid_transitions)
             THEN /\ last' = Served("update_document_status", document_id, new_status,
                                    400, InvalidTransition(current, new_status))
                  /\ UNCHANGED <<store, clock, workerVars, sideVars>>
             ELSE /\ documents' = [documents EXCEPT ![d].verification_status = new_status]
                  /\ last' = Served("update_document_status", document_id, new_status,
                                    200, serialize_document(d, documents'[d], customers))
                  /\ UNCHANGED <<customers, alerts, cases, notes, activity,
                                 clock, workerVars, sideVars>>

UpdateDocumentStatus ==
    \E document_id \in DocumentIds, new_status \in DocRequests :
        update_document_status(document_id, new_status)

get_document(document_id) ==
    LET d == First(documents, "document_id", document_id) IN
    /\ last' = IF d = 0
               THEN Served("get_document", document_id, "", 404,
                           [detail |-> "Document not found"])
               ELSE Served("get_document", document_id, "", 200,
                           serialize_document(d, documents[d], customers))
    /\ UNCHANGED <<store, clock, workerVars, sideVars>>

GetDocument == \E document_id \in DocumentIds : get_document(document_id)

\* ------------------------------------------------------------- case notes
NoteAnalysts == {"Sarah Chen", "James Morrison"}
NoteContents == {"", "Requested UBO documents"}
DefaultAnalyst == "Sarah Chen"

\* the JSON bodies sent to POST /cases/{case_id}/notes: the analyst field is
\* omitted (<<>>) or present (<<name>>)
NoteJson ==
    [content : NoteContents, analyst : {<< >>} \cup {<<a>> : a \in NoteAnalysts}]

\* NoteCreate: analyst defaults to "Sarah Chen" when the body omits it
NoteCreate(json) ==
    [content |-> json.content,
     analyst |-> IF json.analyst = << >> THEN DefaultAnalyst ELSE json.analyst[1]]

serialize_note(n, note) ==
    [id |-> n, content |-> note.content, analyst_name |-> note.analyst_name,
     created_at |-> [iso |-> note.created_at]]

\* the enumerations of the finite set S
Perms(S) ==
    {p \in [1..Cardinality(S) -> S] : \A i, j \in 1..Cardinality(S) : p[i] = p[j] => i = j}

\* ORDER BY key ASC over the rows S: every enumeration of S with
\* non-decreasing keys (the order of rows with equal keys is unspecified)
OrderByAsc(S, key) ==
    {p \in Perms(S) : \A i \in 1..(Cardinality(S) - 1) : key[p[i]] <= key[p[i + 1]]}

OrderByDesc(S, key) ==
    {p \in Perms(S) : \A i \in 1..(Cardinality(S) - 1) : key[p[i]] >= key[p[i + 1]]}

\* the row orders get_case_notes can return for the case with row id c
NotesQuery(c) ==
    LET rows == {n \in DOMAIN notes : notes[n].case_id = c}
    IN  OrderByAsc(rows, [n \in rows |-> notes[n].created_at])

get_case_notes(case_id) ==
    LET c == First(cases, "case_id", case_id) IN
    /\ IF c = 0
       THEN last' = Served("get_case_notes", case_id, "", 404,
                           [detail |-> "Case not found"])
       ELSE \E rows \in NotesQuery(c) :
              last' = Served("get_case_notes", case_id, "", 200,
                             [items |-> [i \in DOMAIN rows |->
                                           serialize_note(rows[i], notes[rows[i]])]])
    /\ UNCHANGED <<store, clock, workerVars, sideVars>>

GetCaseNotes == \E case_id \in CaseIds : get_case_notes(case_id)

\* variant: the new note takes the place of the newest stored note
add_case_note_overwrite(case_id, json) ==
    LET c == First(cases, "case_id", case_id)
        body == NoteCreate(json)
    IN
    IF c = 0
    THEN /\ last' = Served("add_case_note", case_id, json, 404,
                           [detail |-> "Case not found"])
         /\ UNCHANGED <<store, clock, workerVars, sideVars>>
    ELSE LET note == [case_id |-> c, content |-> body.content,
                      analyst_name |-> body.analyst, created_at |-> clock]
         IN  /\ Len(notes) < MaxNotes
             /\ clock < MaxClock
             /\ clock' = clock + 1
             /\ notes' = [notes EXCEPT ![Len(notes)] = note]
             /\ last' = Served("add_case_note", case_id, json, 200,
                               serialize_note(Len(notes'), note))
             /\ UNCHANGED <<customers, alerts, documents, cases, activity,
                            workerVars, sideVars>>

add_case_note(case_id, json) ==
    LET c == First(cases, "case_id", case_id)
        body == NoteCreate(json)
    IN
    IF c = 0
    THEN /\ last' = Served("add_case_note", case_id, json, 404,
                           [detail |-> "Case not found"])
         /\ UNCHANGED <<store, clock, workerVars, sideVars>>
    ELSE LET note == [case_id |-> c, content |-> body.content,
                      analyst_name |-> body.analyst, created_at |-> clock]
         IN  /\ Len(notes) < MaxNotes
             /\ clock < MaxClock
             /\ clock' = clock + 1
             /\ notes' = Append(notes, note)
             /\ last' = Served("add_case_note", case_id, json, 200,
                               serialize_note(Len(notes'), note))
             /\ UNCHANGED <<customers, alerts, documents, cases, activity,
                            workerVars, sideVars>>

AddCaseNote ==
    \E case_id \in CaseIds, json \in NoteJson : add_case_note(case_id, json)

\* time passes between two requests; a reading of datetime.utcnow() is taken
\* to be later than every reading before it
Tick ==
    /\ clock < MaxClock
    /\ clock' = clock + 1
    /\ UNCHANGED <<store, last, workerVars, sideVars>>

\* -------------------------------------------------------- read endpoints
\* An endpoint that answers a JSON array answers it as the field items of the
\* body; the free-text description column of alerts is not carried by the rows.
Ok(op, id, body) ==
    /\ last' = Served(op, id, "", 200, body)
    /\ UNCHANGED <<store, clock, workerVars, sideVars>>

NotFound(op, id, detail) ==
    /\ last' = Served(op, id, "", 404, [detail |-> detail])
    /\ UNCHANGED <<store, clock, workerVars, sideVars>>

Listed(op, params, body) ==
    /\ last' = Served(op, "", params, 200, body)
    /\ UNCHANGED <<store, clock, workerVars, sideVars>>

\* variant: the pieces are matched as they were split, untrimmed
StripAll_Untrimmed(value) ==
    LET parts == Split(value, ",") IN {parts[i] : i \in DOMAIN parts}

\* [s.strip() for s in value.split(",")]
StripAll(value) ==
    LET parts == Split(value, ",") IN {Strip(parts[i]) : i \in DOMAIN parts}

\* [t.strip() for t in value.split(",") if t.strip()]
StripNonEmpty(value) == StripAll(value) \ {""}

DateColumns ==
    {"created_date", "opened_date", "due_date", "issue_date", "expiry_date",
     "onboarding_date", "last_review_date", "next_review_due"}

SortKey(row, col) ==
    IF col \in DateColumns THEN DateKey(row[col]) ELSE TextRank(row[col])

\* query.order_by(desc(col)) or query.order_by(asc(col)), then .all()
OrderBy(rows, table, col, descending) ==
    IF descending
    THEN OrderByDesc(rows, [i \in rows |-> SortKey(table[i], col)])
    ELSE OrderByAsc(rows, [i \in rows |-> SortKey(table[i], col)])

AlertSortMap ==
    {"alert_id", "alert_type", "severity", "status", "created_date", "assigned_analyst"}

list_alerts(search, severity, status, alert_type, sort_by, sort_order) ==
    LET found == {i \in DOMAIN alerts :
                    \/ search = ""
                    \/ ILike(alerts[i].alert_id, Lower(search))
                    \/ ILike(customers[alerts[i].customer_id].legal_name, Lower(search))}
        severities == StripAll(severity)
        statuses == StripAll(status)
        types == StripAll(alert_type)
        rows == {i \in found :
                   /\ severity = "" \/ alerts[i].severity \in severities
                   /\ status = "" \/ alerts[i].status \in statuses
                   /\ alert_type = "" \/ alerts[i].alert_type \in types}
        sort_col == IF sort_by \in AlertSortMap THEN sort_by ELSE "alert_id"
    IN  \E p \in OrderBy(rows, alerts, sort_col, sort_order = "desc") :
            Listed("list_alerts",
                   [search |-> search, severity |-> severity, status |-> status,
                    alert_type |-> alert_type, sort_by |-> sort_by,
                    sort_order |-> sort_order],
                   [items |-> [k \in DOMAIN p |->
                                 serialize_alert(p[k], alerts[p[k]], customers)]])

CaseSortMap ==
    {"case_id", "case_type", "priority", "status", "opened_date", "due_date",
     "assigned_analyst"}

list_cases(search, status, case_type, priority, sort_by, sort_order) ==
    LET found == {i \in DOMAIN cases :
                    \/ search = ""
                    \/ ILike(cases[i].case_id, Lower(search))
                    \/ ILike(customers[cases[i].customer_id].legal_name, Lower(search))}
        statuses == StripAll(status)
        types == StripAll(case_type)
        priorities == StripAll(priority)
        rows == {i \in found :
                   /\ status = "" \/ cases[i].status \in statuses
                   /\ case_type = "" \/ cases[i].case_type \in types
                   /\ priority = "" \/ cases[i].priority \in priorities}
        sort_col == IF sort_by \in CaseSortMap THEN sort_by ELSE "case_id"
    IN  \E p \in OrderBy(rows, cases, sort_col, sort_order = "desc") :
            Listed("list_cases",
                   [search |-> search, status |-> status, case_type |-> case_type,
                    priority |-> priority, sort_by |-> sort_by,
                    sort_order |-> sort_order],
                   [items |-> [k \in DOMAIN p |->
                                 serialize_case(p[k], cases[p[k]], customers)]])

DocumentSortMap ==
    {"document_id", "doc_type", "verification_status", "issue_date", "expiry_date"}

\* expiry_date, asked for or fallen back to, is ordered by the branch that tests
\* sort_order == "asc"; .asc().nullslast() and .desc().nullsfirst() both keep
\* NULL as the largest value
list_documents(search, status, doc_type, sort_by, sort_order) ==
    LET found == {i \in DOMAIN documents :
                    \/ search = ""
                    \/ ILike(documents[i].document_id, Lower(search))
                    \/ ILike(customers[documents[i].customer_id].legal_name,
                             Lower(search))}
        statuses == StripAll(status)
        types == StripAll(doc_type)
        rows == {i \in found :
                   /\ status = "" \/ documents[i].verification_status \in statuses
                   /\ doc_type = "" \/ documents[i].doc_type \in types}
        sort_col == IF sort_by \in DocumentSortMap THEN sort_by ELSE "expiry_date"
        descending == IF sort_by = "expiry_date" \/ sort_by \notin DocumentSortMap
                      THEN sort_order # "asc"
                      ELSE sort_order = "desc"
    IN  \E p \in OrderBy(rows, documents, sort_col, descending) :
            Listed("list_documents",
                   [search |-> search, status |-> status, doc_type |-> doc_type,
                    sort_by |-> sort_by, sort_order |-> sort_order],
                   [items |-> [k \in DOMAIN p |->
                                 serialize_document(p[k], documents[p[k]], customers)]])

serialize_customer(id, c) ==
    [id |-> id, customer_id |-> c.customer_id, legal_name |-> c.legal_name,
     business_type |-> c.business_type, jurisdiction |-> c.jurisdiction,
     risk_tier |-> c.risk_tier, kyc_status |-> c.kyc_status,
     onboarding_date |-> IsoOrNone(c.onboarding_date),
     last_review_date |-> IsoOrNone(c.last_review_date),
     next_review_due |-> IsoOrNone(c.next_review_due),
     assigned_analyst |-> c.assigned_analyst,
     risk_factors |-> c.risk_factors]

SORTABLE_COLUMNS ==
    {"customer_id", "legal_name", "business_type", "jurisdiction", "risk_tier",
     "kyc_status", "last_review_date", "next_review_due", "onboarding_date",
     "assigned_analyst"}

\* a parameter that is absent (None) is the empty string here: both are falsy and
\* neither is a key of SORTABLE_COLUMNS
list_customers(search, risk_tier, kyc_status, jurisdiction, sort_by, sort_order) ==
    LET found == {i \in DOMAIN customers :
                    \/ search = ""
                    \/ ILike(customers[i].legal_name, search)
                    \/ ILike(customers[i].customer_id, search)}
        tiers == StripNonEmpty(risk_tier)
        statuses == StripNonEmpty(kyc_status)
        jurisdictions == StripNonEmpty(jurisdiction)
        rows == {i \in found :
                   /\ risk_tier = "" \/ tiers = {} \/ customers[i].risk_tier \in tiers
                   /\ kyc_status = "" \/ statuses = {}
                        \/ customers[i].kyc_status \in statuses
                   /\ jurisdiction = "" \/ jurisdictions = {}
                        \/ customers[i].jurisdiction \in jurisdictions}
        sorted == IF sort_by # "" /\ sort_by \in SORTABLE_COLUMNS
                  THEN OrderBy(rows, customers, sort_by, sort_order = "desc")
                  ELSE OrderBy(rows, customers, "customer_id", FALSE)
    IN  \E p \in sorted :
            Listed("list_customers",
                   [search |-> search, risk_tier |-> risk_tier,
                    kyc_status |-> kyc_status, jurisdiction |-> jurisdiction,
                    sort_by |-> sort_by, sort_order |-> sort_order],
                   [items |-> [k \in DOMAIN p |->
                                 serialize_customer(p[k], customers[p[k]])]])

get_customer(customer_id) ==
    LET c == First(customers, "customer_id", customer_id) IN
    IF c = 0 THEN NotFound("get_customer", customer_id, "Customer not found")
    ELSE Ok("get_customer", customer_id, serialize_customer(c, customers[c]))

get_customer_alerts(customer_id) ==
    LET c == First(customers, "customer_id", customer_id)
        rows == {i \in DOMAIN alerts : alerts[i].customer_id = c}
    IN
    IF c = 0 THEN NotFound("get_customer_alerts", customer_id, "Customer not found")
    ELSE \E p \in OrderByDesc(rows, [i \in rows |-> alerts[i].created_date.day]) :
           Ok("get_customer_alerts", customer_id,
              [items |-> [k \in DOMAIN p |->
                 [id |-> p[k], alert_id |-> alerts[p[k]].alert_id,
                  alert_type |-> alerts[p[k]].alert_type,
                  severity |-> alerts[p[k]].severity,
                  status |-> alerts[p[k]].status,
                  created_date |-> IsoOrNone(alerts[p[k]].created_date),
                  assigned_analyst |-> alerts[p[k]].assigned_analyst]]])

get_customer_documents(customer_id) ==
    LET c == First(customers, "customer_id", customer_id)
        rows == {i \in DOMAIN documents : documents[i].customer_id = c}
    IN
    IF c = 0 THEN NotFound("get_customer_documents", customer_id, "Customer not found")
    ELSE \E p \in OrderByAsc(rows, [i \in rows |-> DateKey(documents[i].expiry_date)]) :
           Ok("get_customer_documents", customer_id,
              [items |-> [k \in DOMAIN p |->
                 [id |-> p[k], document_id |-> documents[p[k]].document_id,
                  doc_type |-> documents[p[k]].doc_type,
                  issue_date |-> IsoOrNone(documents[p[k]].issue_date),
                  expiry_date |-> IsoOrNone(documents[p[k]].expiry_date),
                  verification_status |-> documents[p[k]].verification_status]]])

get_customer_cases(customer_id) ==
    LET c == First(customers, "customer_id", customer_id)
        rows == {i \in DOMAIN cases : cases[i].customer_id = c}
    IN
    IF c = 0 THEN NotFound("get_customer_cases", customer_id, "Customer not found")
    ELSE \E p \in OrderByDesc(rows, [i \in rows |-> cases[i].opened_date.day]) :
           Ok("get_customer_cases", customer_id,
              [items |-> [k \in DOMAIN p |->
                 [id |-> p[k], case_id |-> cases[p[k]].case_id,
                  case_type |-> cases[p[k]].case_type,
                  priority |-> cases[p[k]].priority,
                  status |-> cases[p[k]].status,
                  opened_date |-> IsoOrNone(cases[p[k]].opened_date),
                  due_date |-> IsoOrNone(cases[p[k]].due_date),
                  assigned_analyst |-> cases[p[k]].assigned_analyst]]])

serialize_activity(id, e) ==
    [id |-> id, action |-> e.action, analyst_name |-> e.analyst_name,
     created_at |-> [iso |-> e.created_at]]

get_customer_activity(customer_id) ==
    LET c == First(customers, "customer_id", customer_id)
        rows == {i \in DOMAIN activity :
                   \/ ILike(activity[i].action, customers[c].customer_id)
                   \/ ILike(activity[i].action, customers[c].legal_name)}
    IN
    IF c = 0 THEN NotFound("get_customer_activity", customer_id, "Customer not found")
    ELSE \E p \in OrderByDesc(rows, [i \in rows |-> activity[i].created_at]) :
           Ok("get_customer_activity", customer_id,
              [items |-> [k \in DOMAIN p |-> serialize_activity(p[k], activity[p[k]])]])

GetCustomerRow == \E customer_id \in CustomerIds : get_customer(customer_id)

GetCustomer ==
    \E customer_id \in CustomerIds :
        \/ get_customer(customer_id)
        \/ get_customer_alerts(customer_id)
        \/ get_customer_documents(customer_id)
        \/ get_customer_cases(customer_id)
        \/ get_customer_activity(customer_id)

list_activity ==
    \E p \in OrderByDesc(DOMAIN activity,
                         [i \in DOMAIN activity |-> activity[i].created_at]) :
        Ok("list_activity", "",
           [items |-> [k \in DOMAIN p |-> serialize_activity(p[k], activity[p[k]])]])

get_stats ==
    Ok("get_stats", "",
       [customers |-> Len(customers), alerts |-> Len(alerts),
        documents |-> Len(documents), cases |-> Len(cases),
        activity_entries |-> Len(activity), analysts |-> Len(SeedAnalysts)])

\* SELECT risk_tier, count(id) ... GROUP BY risk_tier, then sum of the counts
get_risk_distribution ==
    LET tiers == {customers[i].risk_tier : i \in DOMAIN customers}
        distribution ==
            [t \in tiers |-> Cardinality({i \in DOMAIN customers :
                                            customers[i].risk_tier = t})]
        Sum[T \in SUBSET tiers] ==
            IF T = {} THEN 0
            ELSE LET t == CHOOSE x \in T : TRUE IN distribution[t] + Sum[T \ {t}]
    IN  Ok("get_risk_distribution", "",
           [distribution |-> distribution, total |-> Sum[tiers]])

\* SELECT DISTINCT jurisdiction ... ORDER BY jurisdiction
list_jurisdictions ==
    LET js == {customers[i].jurisdiction : i \in DOMAIN customers}
    IN  \E p \in OrderByAsc(js, [j \in js |-> TextRank(j)]) :
            Ok("list_jurisdictions", "", [items |-> p])

\* query.filter(col == value).count()
Count(table, col, value) ==
    Cardinality({i \in DOMAIN table : table[i][col] = value})

\* variant: the digits after the first decimal are cut off
RoundPercent_Truncated(n, d) == (n * 1000) \div d

\* round(n / d * 100, 1) in tenths of a percent, halves going to the even tenth
RoundPercent(n, d) ==
    LET q == (n * 1000) \div d
        r == (n * 1000) % d
    IN  IF 2 * r > d \/ (2 * r = d /\ q % 2 = 1) THEN q + 1 ELSE q

\* the division n / d of a percentage: it raises ZeroDivisionError for d = 0
Percent(n, d) ==
    IF d = 0 THEN [raised |-> TRUE, value |-> 0]
    ELSE [raised |-> FALSE, value |-> RoundPercent(n, d)]

\* an exception no handler catches: the framework answers 500
InternalServerError(op, arg) ==
    /\ last' = Served(op, "", arg, 500, [detail |-> "Internal Server Error"])
    /\ UNCHANGED <<store, clock, workerVars, sideVars>>

quarterly_metrics ==
    LET total_customers == Len(customers)
        high_risk_count == Count(customers, "risk_tier", "High")
        total_alerts == Len(alerts)
        resolved_alerts == Count(alerts, "status", "Resolved")
        verified_docs == Count(documents, "verification_status", "Verified")
        total_cases == Len(cases)
        closed_cases == Count(cases, "status", "Closed")
        escalated_cases == Count(cases, "status", "Escalated")
        escalation_rate ==
            Percent(escalated_cases, IF total_cases > 1 THEN total_cases ELSE 1)
        Quarters(q1, q2, q3, q4) == [Q1 |-> q1, Q2 |-> q2, Q3 |-> q3, Q4 |-> q4]
    IN  IF escalation_rate.raised THEN InternalServerError("quarterly_metrics", "")
        ELSE
        Ok("quarterly_metrics", "",
           [total_customers_reviewed |-> Quarters(35, 38, 40, total_customers),
            new_alerts_generated |-> Quarters(12, 15, 18, total_alerts - 45),
            alerts_resolved |->
                Quarters(8, 10, 12, IF resolved_alerts > 30 THEN resolved_alerts - 30
                                    ELSE resolved_alerts),
            average_resolution_time_days |-> Quarters(14, 12, 11, 9),
            high_risk_customer_count |-> Quarters(8, 9, 10, high_risk_count),
            documents_verified |->
                Quarters(15, 18, 22, IF verified_docs > 55 THEN verified_docs - 55
                                     ELSE verified_docs),
            cases_closed |->
                Quarters(5, 6, 8, IF closed_cases > 19 THEN closed_cases - 19
                                  ELSE closed_cases),
            escalation_rate_tenths |->
                Quarters(85, 72, 68, escalation_rate.value)])

\* the day count of a stored date and of a calendar date
Ordinal(d) == SeedOrdinal + d.day
CivilOrdinal(c) == DaysFromCivil(c.year, c.month, c.day)

\* variant: an alert under review no longer counts as open
OpenAlertStatuses_OpenOnly == {"Open"}

\* Alert.status.in_(["Open", "Under Review"])
OpenAlertStatuses == {"Open", "Under Review"}

get_kpis(today) ==
    LET reviews_due ==
            Cardinality({i \in DOMAIN customers :
                           /\ customers[i].next_review_due # NULL
                           /\ Civil(customers[i].next_review_due).year = today.year
                           /\ Civil(customers[i].next_review_due).month = today.month})
        total_customers == Len(customers)
        high_risk_count == Count(customers, "risk_tier", "High")
        high_risk_rate ==
            IF total_customers > 0 THEN Percent(high_risk_count, total_customers)
            ELSE [raised |-> FALSE, value |-> 0]
        open_critical ==
            Cardinality({i \in DOMAIN alerts :
                           /\ alerts[i].severity = "Critical"
                           /\ alerts[i].status \in OpenAlertStatuses})
        thirty_days_out == CivilOrdinal(today) + 30
        docs_expiring ==
            Cardinality({i \in DOMAIN documents :
                           /\ documents[i].expiry_date # NULL
                           /\ Ordinal(documents[i].expiry_date) >= CivilOrdinal(today)
                           /\ Ordinal(documents[i].expiry_date) <= thirty_days_out})
    IN  IF high_risk_rate.raised THEN InternalServerError("get_kpis", [today |-> today])
        ELSE
        /\ last' = Served("get_kpis", "", [today |-> today], 200,
                          [reviews_due_this_month |-> reviews_due,
                           high_risk_rate_tenths |-> high_risk_rate.value,
                           high_risk_count |-> high_risk_count,
                           total_customers |-> total_customers,
                           open_critical_alerts |-> open_critical,
                           docs_expiring_30_days |-> docs_expiring])
        /\ UNCHANGED <<store, clock, workerVars, sideVars>>

\* the prompt assembly of compliance_narrative: the counts and the two
\* percentages the f-string works out before the stream is started
compliance_narrative ==
    LET total_customers == Len(customers)
        high_risk == Count(customers, "risk_tier", "High")
        total_alerts == Len(alerts)
        resolved_alerts == Count(alerts, "status", "Resolved")
        open_alerts == Count(alerts, "status", "Open")
        total_cases == Len(cases)
        closed_cases == Count(cases, "status", "Closed")
        escalated_cases == Count(cases, "status", "Escalated")
        verified_docs == Count(documents, "verification_status", "Verified")
        expired_docs == Count(documents, "verification_status", "Expired")
        total_docs == Len(documents)
        high_risk_share == Percent(high_risk, total_customers)
        resolution_share == Percent(resolved_alerts, total_alerts)
    IN  IF high_risk_share.raised \/ resolution_share.raised
        THEN InternalServerError("compliance_narrative", "")
        ELSE Ok("compliance_narrative", "",
                [total_customers |-> total_customers, high_risk |-> high_risk,
                 high_risk_share_tenths |-> high_risk_share.value,
                 total_alerts |-> total_alerts, resolved_alerts |-> resolved_alerts,
                 resolution_share_tenths |-> resolution_share.value,
                 open_alerts |-> open_alerts, total_cases |-> total_cases,
                 closed_cases |-> closed_cases, escalated_cases |-> escalated_cases,
                 verified_docs |-> verified_docs, total_docs |-> total_docs,
                 expired_docs |-> expired_docs])

\* strftime("%b %Y"): the abbreviated month name and the year
MonthLabel(c) ==
    [month |-> <<"Jan", "Feb", "Mar", "Apr", "May", "Jun",
                 "Jul", "Aug", "Sep", "Oct", "Nov", "Dec">>[c.month],
     year |-> c.year]

\* today.replace(day=1) - timedelta(days=i * 30)
MonthDate(today, i) == CivilFromDays(CivilOrdinal([today EXCEPT !.day = 1]) - i * 30)

\* the entry of the month MonthDate(today, i)
ResolutionEntry(today, i) ==
    LET month_date == MonthDate(today, i)
        month_start == CivilOrdinal([month_date EXCEPT !.day = 1])
        month_end ==
            IF month_date.month = 12
            THEN DaysFromCivil(month_date.year + 1, 1, 1)
            ELSE DaysFromCivil(month_date.year, month_date.month + 1, 1)
        created == {i2 \in DOMAIN alerts :
                      /\ Ordinal(alerts[i2].created_date) >= month_start
                      /\ Ordinal(alerts[i2].created_date) < month_end}
        total == Cardinality(created)
        resolved ==
            Cardinality({i2 \in created : alerts[i2].status \in {"Resolved", "Dismissed"}})
        within_sla == IF resolved - (i % 3) > 0 THEN resolved - (i % 3) ELSE 0
        rate == IF total > 0 THEN Percent(within_sla, IF total > 1 THEN total ELSE 1)
                ELSE [raised |-> FALSE, value |-> 0]
    IN  [raised |-> rate.raised,
         month |-> MonthLabel(month_date), total |-> total, resolved |-> resolved,
         resolution_rate_tenths |-> IF rate.value < 1000 THEN rate.value ELSE 1000,
         within_sla_tenths |-> IF rate.value + 50 < 1000 THEN rate.value + 50 ELSE 1000]

\* the figures served when no month has an alert
MockResolution ==
    <<[total |-> 12, resolved |-> 9, resolution_rate_tenths |-> 750, within_sla_tenths |-> 800],
      [total |-> 15, resolved |-> 12, resolution_rate_tenths |-> 800, within_sla_tenths |-> 850],
      [total |-> 11, resolved |-> 9, resolution_rate_tenths |-> 818, within_sla_tenths |-> 860],
      [total |-> 14, resolved |-> 12, resolution_rate_tenths |-> 857, within_sla_tenths |-> 900],
      [total |-> 10, resolved |-> 9, resolution_rate_tenths |-> 900, within_sla_tenths |-> 930],
      [total |-> 8, resolved |-> 7, resolution_rate_tenths |-> 875, within_sla_tenths |-> 920]>>

resolution_rate(today) ==
    \E months_data \in {[k \in 1..6 |-> ResolutionEntry(today, 6 - k)]} :
        IF \E k \in 1..6 : months_data[k].raised
        THEN InternalServerError("resolution_rate", [today |-> today])
        ELSE /\ last' = Served("resolution_rate", "", [today |-> today], 200,
                  IF \A k \in 1..6 : months_data[k].total = 0
                  THEN [k \in 1..6 |->
                          [month |-> MonthLabel(MonthDate(today, 6 - k)),
                           total |-> MockResolution[k].total,
                           resolved |-> MockResolution[k].resolved,
                           resolution_rate_tenths |->
                               MockResolution[k].resolution_rate_tenths,
                           within_sla_tenths |-> MockResolution[k].within_sla_tenths]]
                  ELSE [k \in 1..6 |->
                          [month |-> months_data[k].month,
                           total |-> months_data[k].total,
                           resolved |-> months_data[k].resolved,
                           resolution_rate_tenths |->
                               months_data[k].resolution_rate_tenths,
                           within_sla_tenths |-> months_data[k].within_sla_tenths]])
             /\ UNCHANGED <<store, clock, workerVars, sideVars>>

ResolutionRate == \E today \in Todays : resolution_rate(today)

\* the dates the metrics are asked for
MetricDays == {CivilFromDays(SeedOrdinal + n) : n \in {0, 25, 51}}

GetKpis == \E today \in MetricDays : get_kpis(today)
ResolutionRateOn == \E today \in MetricDays : resolution_rate(today)

\* variant: the walk back keeps the year
RECURSIVE WalkBack_SameYear(_, _)
WalkBack_SameYear(y, m) ==
    IF m <= 0 THEN WalkBack_SameYear(y, m + 12) ELSE [year |-> y, month |-> m]

\* while m <= 0: m += 12; y -= 1
RECURSIVE WalkBack(_, _)
WalkBack(y, m) ==
    IF m <= 0 THEN WalkBack(y - 1, m + 12) ELSE [year |-> y, month |-> m]

month_names ==
    <<"Jan", "Feb", "Mar", "Apr", "May", "Jun",
      "Jul", "Aug", "Sep", "Oct", "Nov", "Dec">>

\* the rows of the grouped query: one for each year, month and severity that
\* has an alert created on or after start_date, with the number of such alerts
TrendRows(created, start_date) ==
    LET selected ==
            {i \in DOMAIN alerts :
               DaysFromCivil(created[i].year, created[i].month, created[i].day)
                 >= start_date}
    IN  {[year |-> created[i].year, month |-> created[i].month,
          severity |-> alerts[i].severity,
          count |-> Cardinality(
              {j \in selected :
                 /\ created[j].year = created[i].year
                 /\ created[j].month = created[i].month
                 /\ alerts[j].severity = alerts[i].severity})] : i \in selected}

\* the entry of one month: the four zero counts, overwritten by the rows of
\* that month
TrendEntry(ym, matching) ==
    [key \in {row.severity : row \in matching} |->
       (CHOOSE row \in matching : row.severity = key).count]
    @@ [month |-> month_names[ym.month], year |-> ym.year,
        Critical |-> 0, High |-> 0, Medium |-> 0, Low |-> 0]

get_alert_trend(today) ==
    LET months == [k \in 1..6 |-> WalkBack(today.year, today.month - (6 - k))]
        first_month == months[1]
        start_date == DaysFromCivil(first_month.year, first_month.month, 1)
    IN
    \E rows \in {TrendRows([i \in DOMAIN alerts |-> Civil(alerts[i].created_date)],
                            start_date)} :
        /\ last' = Served("get_alert_trend", "", [today |-> today], 200,
                          [k \in 1..6 |->
                             TrendEntry(months[k],
                                        {row \in rows : /\ row.year = months[k].year
                                                        /\ row.month = months[k].month})])
        /\ UNCHANGED <<store, clock, workerVars, sideVars>>

AlertTrend == \E today \in Todays : get_alert_trend(today)

\* .limit(max_per_type).all() with no ORDER BY: any max_per_type of the
\* matching rows; the order of a list being the store's choice as well, a list
\* of the response is held as the set of its items
Limit(hits, max_per_type) ==
    LET n == IF Cardinality(hits) < max_per_type THEN Cardinality(hits)
             ELSE max_per_type
    IN  {S \in SUBSET hits : Cardinality(S) = n}

global_search(q) ==
    LET max_per_type == 8
        cs == {i \in DOMAIN customers :
                 \/ ILike(customers[i].customer_id, q)
                 \/ ILike(customers[i].legal_name, q)
                 \/ ILike(customers[i].assigned_analyst, q)}
        as == {i \in DOMAIN alerts :
                 \/ ILike(alerts[i].alert_id, q)
                 \/ ILike(alerts[i].assigned_analyst, q)
                 \/ ILike(customers[alerts[i].customer_id].legal_name, q)}
        ks == {i \in DOMAIN cases :
                 \/ ILike(cases[i].case_id, q)
                 \/ ILike(cases[i].assigned_analyst, q)
                 \/ ILike(customers[cases[i].customer_id].legal_name, q)}
        ds == {i \in DOMAIN documents :
                 \/ ILike(documents[i].document_id, q)
                 \/ ILike(customers[documents[i].customer_id].legal_name, q)}
    IN
    IF Len(q) < 2
    THEN /\ last' = Served("global_search", q, "", 422, [detail |-> "min_length"])
         /\ UNCHANGED <<store, clock, workerVars, sideVars>>
    ELSE \E c \in Limit(cs, max_per_type), a \in Limit(as, max_per_type),
            k \in Limit(ks, max_per_type), d \in Limit(ds, max_per_type) :
           Ok("global_search", q,
              [customers |-> {
                 [id |-> j, customer_id |-> customers[j].customer_id,
                  legal_name |-> customers[j].legal_name,
                  risk_tier |-> customers[j].risk_tier,
                  kyc_status |-> customers[j].kyc_status,
                  business_type |-> customers[j].business_type] : j \in c},
               alerts |-> {
                 [id |-> j, alert_id |-> alerts[j].alert_id,
                  alert_type |-> alerts[j].alert_type,
                  severity |-> alerts[j].severity,
                  status |-> alerts[j].status,
                  customer_name |-> customers[alerts[j].customer_id].legal_name,
                  customer_cid |-> customers[alerts[j].customer_id].customer_id] : j \in a},
               cases |-> {
                 [id |-> j, case_id |-> cases[j].case_id,
                  case_type |-> cases[j].case_type,
                  priority |-> cases[j].priority,
                  status |-> cases[j].status,
                  customer_name |-> customers[cases[j].customer_id].legal_name,
                  customer_cid |-> customers[cases[j].customer_id].customer_id] : j \in k},
               documents |-> {
                 [id |-> j, document_id |-> documents[j].document_id,
                  doc_type |-> documents[j].doc_type,
                  verification_status |-> documents[j].verification_status,
                  customer_name |-> customers[documents[j].customer_id].legal_name,
                  customer_cid |-> customers[documents[j].customer_id].customer_id] : j \in d}])

GlobalSearch == \E q \in SearchQueries : global_search(q)

SearchAny == \E q \in SearchInputs : global_search(q)

\* values sent for the categorical filter parameters
SeverityFilters == {"", ",", " ", "High,Critical", " High , Critical ", "Low"}
AlertStatusFilters == {"", "Open"}
CaseStatusFilters == {"", " , ", "Open,In Progress", "Closed"}
PriorityFilters == {"", "Critical", "Critical, Medium"}
DocStatusFilters == {"", ",", "Verified", " Pending , Expired "}
DocTypeFilters == {"", "Passport,"}
RiskTierFilters == {"", ",", " ", "High", "Low, High"}
KycStatusFilters == {"", " , ", "Verified"}
JurisdictionFilters == {"", "Switzerland"}

FilterAlerts ==
    \E severity \in SeverityFilters, status \in AlertStatusFilters :
        list_alerts("", severity, status, "", "alert_id", "asc")

FilterCases ==
    \E status \in CaseStatusFilters, priority \in PriorityFilters :
        list_cases("", status, "", priority, "case_id", "asc")

FilterDocuments ==
    \E status \in DocStatusFilters, doc_type \in DocTypeFilters :
        list_documents("", status, doc_type, "expiry_date", "asc")

FilterCustomers ==
    \E risk_tier \in RiskTierFilters, kyc_status \in KycStatusFilters,
       jurisdiction \in JurisdictionFilters :
        list_customers("", risk_tier, kyc_status, jurisdiction, "", "asc")

\* values sent for sort_by and sort_order: the default, columns of the
\* whitelist, and strings outside it
SortOrders == {"asc", "desc", "ASC", "ascending", ""}
AlertSortBys == {"alert_id", "severity", "created_date", "bogus"}
CaseSortBys == {"case_id", "priority", "opened_date", ""}
DocumentSortBys == {"expiry_date", "document_id", "verification_status", "bogus"}
CustomerSortBys == {"", "legal_name", "onboarding_date", "bogus"}

SortAlerts ==
    \E sort_by \in AlertSortBys, sort_order \in SortOrders :
        list_alerts("", "", "", "", sort_by, sort_order)

SortCases ==
    \E sort_by \in CaseSortBys, sort_order \in SortOrders :
        list_cases("", "", "", "", sort_by, sort_order)

SortDocuments ==
    \E sort_by \in DocumentSortBys, sort_order \in SortOrders :
        list_documents("", "", "", sort_by, sort_order)

SortCustomers ==
    \E sort_by \in CustomerSortBys, sort_order \in SortOrders :
        list_customers("", "", "", "", sort_by, sort_order)

ListAll ==
    \/ list_alerts("", "", "", "", "alert_id", "asc")
    \/ list_cases("", "", "", "", "case_id", "asc")
    \/ list_documents("", "", "", "expiry_date", "asc")
    \/ list_customers("", "", "", "", "", "asc")
    \/ list_activity
    \/ list_jurisdictions
    \/ get_stats
    \/ get_risk_distribution
    \/ quarterly_metrics

\* --------------------------------------------------- concurrent requests
\* Each request runs in its own thread with its own Session.  A status
\* update is three database round trips: the SELECT of the row followed by
\* the in-memory validation, the commit that flushes the UPDATE, and the
\* SELECT that reloads the row for the response.
StatusUpdates ==
    {"update_alert_status", "update_case_status", "update_document_status"}

RaceIds(op) ==
    CASE op = "update_alert_status" -> {"ALT-00001"}
      [] op = "update_case_status" -> {"CAS-00001"}
      [] op = "update_document_status" -> {"DOC-00001"}

RaceRequests(op) ==
    CASE op = "update_alert_status" -> AlertRequests
      [] op = "update_case_status" -> CaseRequests
      [] op = "update_document_status" -> DocRequests

Transitions(op) ==
    CASE op = "update_alert_status" -> ALERT_TRANSITIONS
      [] op = "update_case_status" -> CASE_TRANSITIONS
      [] op = "update_document_status" -> DOC_TRANSITIONS

Lookup(op, id) ==
    CASE op = "update_alert_status" -> First(alerts, "alert_id", id)
      [] op = "update_case_status" -> First(cases, "case_id", id)
      [] op = "update_document_status" -> First(documents, "document_id", id)

StoredStatus(op, row) ==
    CASE op = "update_alert_status" -> alerts[row].status
      [] op = "update_case_status" -> cases[row].status
      [] op = "update_document_status" -> documents[row].verification_status

\* variant: compare-and-swap, the write is dropped when the row changed
CommitStatus_CompareAndSwap(stored, loaded, new_status) ==
    IF stored = loaded THEN new_status ELSE stored

\* entity.status = new_status; db.commit(): the UPDATE sets the column to the
\* requested value whatever the row holds by now and whatever was loaded
CommitStatus(stored, loaded, new_status) == new_status

RaceSelect(w) ==
    /\ pc[w] = "idle"
    /\ \E op \in StatusUpdates :
       \E id \in RaceIds(op), new_status \in RaceRequests(op) :
         LET row == Lookup(op, id) IN
         IF row = 0
         THEN /\ resp' = [resp EXCEPT ![w] = Response(404, [status |-> ""])]
              /\ UNCHANGED <<pc, rq, cur>>
         ELSE LET current == StoredStatus(op, row)
                  valid_transitions == DictGet(Transitions(op), current, EmptyDict)
              IN  IF new_status \notin Values(valid_transitions)
                  THEN /\ resp' = [resp EXCEPT ![w] = Response(400, [status |-> ""])]
                       /\ UNCHANGED <<pc, rq, cur>>
                  ELSE /\ pc' = [pc EXCEPT ![w] = "commit"]
                       /\ rq' = [rq EXCEPT ![w] = [op |-> op, id |-> id,
                                                   status |-> new_status]]
                       /\ cur' = [cur EXCEPT ![w] = [status |-> current]]
                       /\ resp' = [resp EXCEPT ![w] = NoResponse]
    /\ UNCHANGED <<store, clock, last, sideVars>>

RaceCommit(w) ==
    /\ pc[w] = "commit"
    /\ LET op == rq[w].op
           row == Lookup(op, rq[w].id)
           value == CommitStatus(StoredStatus(op, row), cur[w].status, rq[w].status)
       IN  CASE op = "update_alert_status" ->
                  /\ alerts' = [alerts EXCEPT ![row].status = value]
                  /\ UNCHANGED <<cases, documents>>
             [] op = "update_case_status" ->
                  /\ cases' = [cases EXCEPT ![row].status = value]
                  /\ UNCHANGED <<alerts, documents>>
             [] op = "update_document_status" ->
                  /\ documents' = [documents EXCEPT ![row].verification_status = value]
                  /\ UNCHANGED <<alerts, cases>>
    /\ pc' = [pc EXCEPT ![w] = "reload"]
    /\ UNCHANGED <<customers, notes, activity, clock, last, rq, cur, resp, sideVars>>

RaceReload(w) ==
    /\ pc[w] = "reload"
    /\ resp' = [resp EXCEPT ![w] =
                  Response(200, [status |-> StoredStatus(rq[w].op,
                                                         Lookup(rq[w].op, rq[w].id))])]
    /\ pc' = [pc EXCEPT ![w] = "idle"]
    /\ rq' = [rq EXCEPT ![w] = NoRequest]
    /\ cur' = [cur EXCEPT ![w] = NoRow]
    /\ UNCHANGED <<store, clock, last, sideVars>>

Select == \E w \in Workers : RaceSelect(w)
Commit == \E w \in Workers : RaceCommit(w)
Reload == \E w \in Workers : RaceReload(w)

\* add_case_note in the two steps another request can come between: the handler
\* selects the case and builds the note, reading the clock for created_at; then
\* it adds and commits the note, which gets the next id, and returns it
NoteBuild(w) ==
    /\ pc[w] = "idle"
    /\ \E case_id \in CaseIds, json \in NoteJson :
         LET c == First(cases, "case_id", case_id)
             body == NoteCreate(json)
         IN
         IF c = 0
         THEN /\ last' = Served("add_case_note", case_id, json, 404,
                                [detail |-> "Case not found"])
              /\ UNCHANGED <<store, clock, workerVars, sideVars>>
         ELSE /\ clock < MaxClock
              /\ clock' = clock + 1
              /\ pc' = [pc EXCEPT ![w] = "insert"]
              /\ rq' = [rq EXCEPT ![w] =
                          [op |-> "add_case_note", id |-> case_id, json |-> json]]
              /\ cur' = [cur EXCEPT ![w] =
                           [case_id |-> c, content |-> body.content,
                            analyst_name |-> body.analyst, created_at |-> clock]]
              /\ UNCHANGED <<store, last, resp, sideVars>>

NoteInsert(w) ==
    /\ pc[w] = "insert"
    /\ Len(notes) < MaxNotes
    /\ notes' = Append(notes, cur[w])
    /\ last' = Served("add_case_note", rq[w].id, rq[w].json, 200,
                      serialize_note(Len(notes'), cur[w]))
    /\ pc' = [pc EXCEPT ![w] = "idle"]
    /\ rq' = [rq EXCEPT ![w] = NoRequest]
    /\ cur' = [cur EXCEPT ![w] = NoRow]
    /\ UNCHANGED <<customers, alerts, documents, cases, activity, clock, resp, sideVars>>

Build == \E w \in Workers : NoteBuild(w)
Insert == \E w \in Workers : NoteInsert(w)

\* ---------------------------------------------------------- specifications
Next ==
    \/ UpdateAlertStatus
    \/ UpdateCaseStatus
    \/ UpdateDocumentStatus

Spec == Init /\ [][Next]_vars

NextReads ==
    \/ UpdateAlertStatus
    \/ UpdateCaseStatus
    \/ UpdateDocumentStatus
    \/ GetAlert
    \/ GetCase
    \/ GetDocument
    \/ GetCustomer
    \/ GetCaseNotes
    \/ GlobalSearch
    \/ ListAll

SpecReads == Init /\ [][NextReads]_vars

NextNotes ==
    \/ AddCaseNote
    \/ GetCaseNotes
    \/ Tick

SpecNotes == Init /\ [][NextNotes]_vars

\* the requests on a case (status update, note creation, notes read) with the
\* gets of the four entities, served one after the other
NextStore ==
    \/ AddCaseNote
    \/ UpdateCaseStatus
    \/ GetCaseNotes
    \/ GetCase
    \/ GetAlert
    \/ GetDocument
    \/ GetCustomerRow

SpecStore == Init /\ [][NextStore]_vars

NextFilters ==
    \/ FilterAlerts
    \/ FilterCases
    \/ FilterDocuments
    \/ FilterCustomers

SpecFilters == InitLists /\ [][NextFilters]_vars

NextSorts ==
    \/ SortAlerts
    \/ SortCases
    \/ SortDocuments
    \/ SortCustomers

SpecSorts == InitLists /\ [][NextSorts]_vars

NextSearch ==
    \/ SearchAny
    \/ UpdateAlertStatus

SpecSearch == InitSearch /\ [][NextSearch]_vars

NextTrend == AlertTrend

NextMetrics ==
    \/ GetKpis
    \/ quarterly_metrics
    \/ ResolutionRateOn
    \/ compliance_narrative
    \/ UpdateAlertStatus

SpecMetrics == InitMetrics /\ [][NextMetrics]_vars

NextResolution == ResolutionRate

SpecResolution == InitSearch /\ [][NextResolution]_vars

SpecTrend == InitSearch /\ [][NextTrend]_vars

\* ----------------------------------------------------------------- startup
\* for attempt in range(5)
Attempts == 5

\* if attempt == 4: raise
LastAttempt_Five == Attempts
LastAttempt == 4

\* the lifespan entered: no create_all call made yet
Starting == [pc |-> "create_all", attempt |-> 0, calls |-> 0, tables |-> FALSE]

\* a row of activity_logs that the seed does not write
ImportedActivity ==
    <<[action |-> "Customer CUS-20001 onboarding file imported",
       analyst_name |-> "Elena Rossi", created_at |-> -90]>>

\* the database found at startup: never used, seeded and trimmed to its first
\* customers, or emptied of customers with rows left in activity_logs
InitStartup ==
    \E n \in 0..2, logged \in {<<>>, ImportedActivity, SeedActivity \o ImportedActivity} :
        /\ customers = SubSeq(SeedCustomers, 1, n)
        /\ alerts = OfCustomers(SeedAlerts, n)
        /\ documents = OfCustomers(SeedDocuments, n)
        /\ cases = OfCustomers(SeedCases, n)
        /\ notes = IF n = 0 THEN <<>> ELSE SeedNotes
        /\ activity = logged
        /\ clock = 1
        /\ last = Served("none", "", "", 0, NULL)
        /\ pc = [w \in Workers |-> "idle"]
        /\ rq = [w \in Workers |-> NoRequest]
        /\ cur = [w \in Workers |-> NoRow]
        /\ resp = [w \in Workers |-> NoResponse]
        /\ boot = Starting
        /\ stream = NoStream

\* Base.metadata.create_all(bind=engine) returns: break
CreateAllReturns ==
    /\ boot.pc = "create_all"
    /\ boot' = [boot EXCEPT !.pc = "seed_check", !.calls = @ + 1, !.tables = TRUE]
    /\ UNCHANGED <<store, clock, last, workerVars, stream>>

\* create_all raises: the exception propagates on the last attempt, otherwise
\* time.sleep(2) and the next pass of the loop; a loop that runs out of passes
\* falls through to the statements after it
CreateAllRaises ==
    /\ boot.pc = "create_all"
    /\ boot' = [boot EXCEPT
                   !.calls = @ + 1,
                   !.pc = IF boot.attempt = LastAttempt THEN "raised"
                          ELSE IF boot.attempt + 1 < Attempts THEN "create_all"
                          ELSE "seed_check",
                   !.attempt = IF boot.attempt # LastAttempt /\ boot.attempt + 1 < Attempts
                               THEN @ + 1 ELSE @]
    /\ UNCHANGED <<store, clock, last, workerVars, stream>>

\* seed(): drop_all, create_all, then the seed rows of every table
seed ==
    /\ customers' = SeedCustomers
    /\ alerts' = SeedAlerts
    /\ documents' = SeedDocuments
    /\ cases' = SeedCases
    /\ notes' = SeedNotes
    /\ activity' = SeedActivity

\* count = db.query(Customer).count(); if count == 0: seed(); then yield
SeedCheck ==
    /\ boot.pc = "seed_check"
    /\ LET count == Len(customers)
       IN  IF count = 0 THEN seed ELSE UNCHANGED store
    /\ boot' = [boot EXCEPT !.pc = "serving"]
    /\ UNCHANGED <<clock, last, workerVars, stream>>

\* requests are served once the lifespan has yielded
ServeAlertUpdate ==
    /\ boot.pc = "serving"
    /\ UpdateAlertStatus

Startup ==
    \/ CreateAllReturns
    \/ CreateAllRaises
    \/ SeedCheck

NextStartup ==
    \/ CreateAllReturns
    \/ CreateAllRaises
    \/ SeedCheck
    \/ ServeAlertUpdate

SpecStartup == InitStartup /\ [][NextStartup]_vars

\* the lifespan is straight-line code: a create_all call returns or raises,
\* the sleep ends, the count query answers
SpecStartupLive == InitStartup /\ [][NextStartup]_vars /\ WF_vars(Startup)

\* -------------------------------------------------------- narrative stream
\* the upstream text fragments: plain, empty, with a newline, with quotes,
\* with a backslash
Fragments == {"", "KYC", " risk\n", "\"High\"", "a\\b"}

\* json.dumps of one character of a string (printable ASCII and newline)
JsonEscape_Raw(c) == c
JsonEscape(c) ==
    IF c = "\"" THEN "\\\""
    ELSE IF c = "\\" THEN "\\\\"
    ELSE IF c = "\n" THEN "\\n"
    ELSE c

RECURSIVE JsonChars(_)
JsonChars(s) == IF s = "" THEN "" ELSE JsonEscape(Head(s)) \o JsonChars(Tail(s))

\* json.dumps({key: value}) for a string value
json_dumps(key, value) == "{\"" \o key \o "\": \"" \o JsonChars(value) \o "\"}"

\* f"data: {payload}\n\n"
Frame(payload) == "data: " \o payload \o "\n\n"
TextFrame(text) == Frame(json_dumps("text", text))
ErrorFrame(detail) == Frame(json_dumps("error", detail))
DoneFrame == Frame("[DONE]")

\* the exceptions the client raises, and str(e) of each
ExceptionKinds == {"AuthenticationError", "APIConnectionError", "APIStatusError"}
Message(kind) ==
    IF kind = "AuthenticationError" THEN "invalid x-api-key"
    ELSE IF kind = "APIConnectionError" THEN "Connection error."
    ELSE "Overloaded"

\* the except clause that takes an exception raised inside the try block
Handler_AuthOnly(kind) ==
    IF kind = "AuthenticationError" THEN "invalid_api_key" ELSE "propagate"
Handler(kind) ==
    IF kind = "AuthenticationError" THEN "invalid_api_key"
    ELSE "AI service unavailable: " \o Message(kind)

\* leaving the with block closes the upstream stream
Release_Leaked(upstream) == upstream
Release(upstream) == IF upstream = "open" THEN "closed" ELSE upstream

\* the generator's frame unwinds with an exception of the given kind
Unwind(kind) ==
    IF Handler(kind) = "propagate"
    THEN stream' = [stream EXCEPT !.pc = "raised", !.failure = kind,
                                  !.upstream = Release(@)]
    ELSE stream' = [stream EXCEPT !.pc = "error_sent", !.failure = kind,
                                  !.upstream = Release(@),
                                  !.out = Append(@, ErrorFrame(Handler(kind)))]

\* get_anthropic_client raises HTTPException 503: no key saved and none in the
\* environment
NoKey ==
    /\ stream.pc = "idle"
    /\ stream' = [stream EXCEPT
                     !.pc = "error_sent", !.failure = "unconfigured",
                     !.out = Append(@, ErrorFrame(
                                 "AI service unavailable: ANTHROPIC_API_KEY not set"))]
    /\ UNCHANGED <<store, clock, last, workerVars, boot>>

\* get_anthropic_client raises HTTPException 503: the client cannot be built
NoClient ==
    /\ stream.pc = "idle"
    /\ stream' = [stream EXCEPT
                     !.pc = "error_sent", !.failure = "unconfigured",
                     !.out = Append(@, ErrorFrame(
                                 "AI service unavailable: No module named 'anthropic'"))]
    /\ UNCHANGED <<store, clock, last, workerVars, boot>>

\* client.messages.stream(**kwargs) entered
OpenUpstream ==
    /\ stream.pc = "idle"
    /\ stream' = [stream EXCEPT !.pc = "reading", !.upstream = "open"]
    /\ UNCHANGED <<store, clock, last, workerVars, boot>>

\* entering client.messages.stream raises
OpenFails ==
    /\ stream.pc = "idle"
    /\ \E kind \in ExceptionKinds : Unwind(kind)
    /\ UNCHANGED <<store, clock, last, workerVars, boot>>

\* for text in stream.text_stream: yield the frame of the next fragment
ReadText ==
    /\ stream.pc = "reading"
    /\ Len(stream.up) < MaxFragments
    /\ \E text \in Fragments :
           stream' = [stream EXCEPT !.pc = "text_sent",
                                    !.up = Append(@, text),
                                    !.out = Append(@, TextFrame(text))]
    /\ UNCHANGED <<store, clock, last, workerVars, boot>>

\* the frame is sent, await asyncio.sleep(0) returns, the loop goes on
Continue ==
    /\ stream.pc = "text_sent"
    /\ stream' = [stream EXCEPT !.pc = "reading"]
    /\ UNCHANGED <<store, clock, last, workerVars, boot>>

\* text_stream is exhausted: the with block is left, the end marker is yielded
ReadEnd ==
    /\ stream.pc = "reading"
    /\ stream' = [stream EXCEPT !.pc = "done_sent",
                                !.upstream = Release(@),
                                !.out = Append(@, DoneFrame)]
    /\ UNCHANGED <<store, clock, last, workerVars, boot>>

\* reading text_stream raises
ReadFails ==
    /\ stream.pc = "reading"
    /\ \E kind \in ExceptionKinds \ {"AuthenticationError"} : Unwind(kind)
    /\ UNCHANGED <<store, clock, last, workerVars, boot>>

\* the end marker after an error frame
YieldDone ==
    /\ stream.pc = "error_sent"
    /\ stream' = [stream EXCEPT !.pc = "done_sent", !.out = Append(@, DoneFrame)]
    /\ UNCHANGED <<store, clock, last, workerVars, boot>>

\* the generator returns
Return ==
    /\ stream.pc = "done_sent"
    /\ stream' = [stream EXCEPT !.pc = "ended"]
    /\ UNCHANGED <<store, clock, last, workerVars, boot>>

\* the client goes away
Disconnect ==
    /\ stream.connected
    /\ stream.pc \notin {"ended", "cancelled", "raised"}
    /\ stream' = [stream EXCEPT !.connected = FALSE]
    /\ UNCHANGED <<store, clock, last, workerVars, boot>>

\* the response task is cancelled while the generator is suspended at a yield
\* or in asyncio.sleep(0): CancelledError and GeneratorExit are not caught by
\* except Exception, the with block is left on the way out
Observe ==
    /\ ~stream.connected
    /\ stream.pc \in {"text_sent", "error_sent", "done_sent"}
    /\ stream' = [stream EXCEPT !.pc = "cancelled", !.observed = TRUE,
                                !.upstream = Release(@)]
    /\ UNCHANGED <<store, clock, last, workerVars, boot>>

Generator ==
    \/ NoKey
    \/ NoClient
    \/ OpenUpstream
    \/ OpenFails
    \/ ReadText
    \/ Continue
    \/ ReadEnd
    \/ ReadFails
    \/ YieldDone
    \/ Return
    \/ Observe

NextStream ==
    \/ NoKey
    \/ NoClient
    \/ OpenUpstream
    \/ OpenFails
    \/ ReadText
    \/ Continue
    \/ ReadEnd
    \/ ReadFails
    \/ YieldDone
    \/ Return
    \/ Disconnect
    \/ Observe

SpecStream == Init /\ [][NextStream]_vars

\* the generator's steps are taken: a read of the upstream returns a fragment,
\* its end or an exception (the client's timeout bounds the wait), and the
\* event loop resumes a suspended generator or closes it
SpecStreamLive == Init /\ [][NextStream]_vars /\ WF_vars(Generator)

NextRace ==
    \/ Select
    \/ Commit
    \/ Reload

SpecRace == Init /\ [][NextRace]_vars

NextNoteRace ==
    \/ Build
    \/ Insert
    \/ GetCaseNotes
    \/ Tick

SpecNoteRace == Init /\ [][NextNoteRace]_vars

\* ------------------------------------------------------------ properties
\* the status graphs as the specification states them
AlertGraph(s) ==
    CASE s = "Open" -> {"Under Review", "Dismissed"}
      [] s = "Under Review" -> {"Resolved", "Dismissed"}
      [] s = "Resolved" -> {"Open"}
      [] s = "Dismissed" -> {"Open"}

CaseGraph(s) ==
    CASE s = "Open" -> {"In Progress", "Escalated"}
      [] s = "In Progress" -> {"Escalated", "Closed"}
      [] s = "Escalated" -> {"Closed"}
      [] s = "Closed" -> {"Open"}

DocGraph(s) ==
    CASE s = "Pending" -> {"Verified", "Rejected", "Expired"}
      [] s = "Verified" -> {"Expired"}
      [] s = "Expired" -> {"Pending"}
      [] s = "Rejected" -> {"Pending"}

\* C1: an alert status update on an existing alert with stored status s and
\* requested string t answers 200 and stores t when t is in AlertGraph(s),
\* and otherwise answers 400 and keeps s.
C1_AlertGuard ==
    [][(last'.op = "update_alert_status" /\ last'.code # 404) =>
         LET a == First(alerts, "alert_id", last'.id)
             s == alerts[a].status
             t == last'.arg
         IN  /\ s \in AlertStatuses
             /\ IF t \in AlertGraph(s)
                THEN last'.code = 200 /\ alerts'[a].status = t
                ELSE last'.code = 400 /\ alerts'[a].status = s]_vars

\* a Resolved alert was asked to become Dismissed and the request was refused
C1_Witness ==
    /\ last.op = "update_alert_status"
    /\ last.code = 400
    /\ last.body.current = "Resolved"
    /\ last.body.requested = "Dismissed"
    /\ alerts[First(alerts, "alert_id", last.id)].status = "Resolved"

\* C2: a case status update on an existing case with stored status s and
\* requested string t answers 200 and stores t when t is in CaseGraph(s),
\* and otherwise answers 400 and keeps s.
C2_CaseGuard ==
    [][(last'.op = "update_case_status" /\ last'.code # 404) =>
         LET c == First(cases, "case_id", last'.id)
             s == cases[c].status
             t == last'.arg
         IN  /\ s \in CaseStatuses
             /\ IF t \in CaseGraph(s)
                THEN last'.code = 200 /\ cases'[c].status = t
                ELSE last'.code = 400 /\ cases'[c].status = s]_vars

\* a Closed case was reopened
C2_Witness ==
    /\ last.op = "update_case_status"
    /\ last.code = 200
    /\ last.arg = "Open"
    /\ cases[First(cases, "case_id", last.id)].status = "Open"

\* C3: a document status update on an existing document with stored status s
\* and requested string t answers 200 and stores t when t is in DocGraph(s),
\* and otherwise answers 400 and keeps s.
C3_DocumentGuard ==
    [][(last'.op = "update_document_status" /\ last'.code # 404) =>
         LET d == First(documents, "document_id", last'.id)
             s == documents[d].verification_status
             t == last'.arg
         IN  /\ s \in DocStatuses
             /\ IF t \in DocGraph(s)
                THEN last'.code = 200 /\ documents'[d].verification_status = t
                ELSE last'.code = 400 /\ documents'[d].verification_status = s]_vars

\* a Verified document was asked to become Pending and the request was refused
C3_Witness ==
    /\ last.op = "update_document_status"
    /\ last.code = 400
    /\ last.body.current = "Verified"
    /\ last.body.requested = "Pending"

\* the status the row named by a status-update request holds
StatusOfRequest(op, id) == StoredStatus(op, Lookup(op, id))

\* C4: a refused status update (400) on an alert, case or document answers
\* with the status the row held and the status requested, and changes no
\* table.
C4_RejectedUpdate ==
    [][(last'.op \in StatusUpdates /\ last'.code = 400) =>
         /\ last'.body.current = StatusOfRequest(last'.op, last'.id)
         /\ last'.body.requested = last'.arg
         /\ last'.arg \notin Values(DictGet(Transitions(last'.op),
                                            last'.body.current, EmptyDict))
         /\ UNCHANGED store]_vars

\* a case was asked to take the status it already has and the request was refused
C4_Witness ==
    /\ last.op = "update_case_status"
    /\ last.code = 400
    /\ last.body.current = "Escalated"
    /\ last.body.requested = "Escalated"
    /\ cases[First(cases, "case_id", last.id)].status = "Escalated"

\* the statuses one successful update away from s in a transition table
Successors(T, s) == Values(DictGet(T, s, EmptyDict))

RECURSIVE Closure(_, _)
Closure(T, S) ==
    LET step == S \cup UNION {Successors(T, s) : s \in S}
    IN  IF step = S THEN S ELSE Closure(T, step)

\* the statuses some non-empty sequence of successful updates leads to from s
Reachable(T, s) == Closure(T, Successors(T, s))

\* C5: a request that passed validation against the status it loaded always
\* commits, whatever the row holds by then, the row then holds the value it
\* requested (no version check, last write wins), and it answers 200.
C5_LastWriteWins ==
    [][\A w \in Workers :
         /\ (pc[w] = "commit" /\ pc'[w] # "commit") =>
               /\ pc'[w] = "reload"
               /\ rq[w].status \in Successors(Transitions(rq[w].op), cur[w].status)
               /\ StatusOfRequest(rq[w].op, rq[w].id)' = rq[w].status
         /\ (pc[w] = "reload" /\ pc'[w] # "reload") => resp'[w].code = 200]_vars

\* two requests on one alert were both validated against Open and both
\* committed: Dismissed first, then Under Review, which Dismissed does not allow
C5_Witness ==
    /\ pc["w1"] = "reload" /\ pc["w2"] = "reload"
    /\ rq["w1"].op = "update_alert_status" /\ rq["w2"].op = "update_alert_status"
    /\ rq["w1"].id = rq["w2"].id
    /\ cur["w1"].status = "Open" /\ cur["w2"].status = "Open"
    /\ rq["w1"].status = "Dismissed" /\ rq["w2"].status = "Under Review"
    /\ StatusOfRequest("update_alert_status", rq["w2"].id) = "Under Review"
    /\ "Under Review" \notin AlertGraph("Dismissed")

\* C6: under every interleaving of the steps of concurrent status updates
\* every stored status is a member of its entity's enumerated set.
C6_StatusesEnumerated ==
    /\ \A a \in DOMAIN alerts : alerts[a].status \in AlertStatuses
    /\ \A c \in DOMAIN cases : cases[c].status \in CaseStatuses
    /\ \A d \in DOMAIN documents : documents[d].verification_status \in DocStatuses

\* one request was refused while another one had committed a case to Closed
C6_Witness ==
    \E w \in Workers, v \in Workers :
        /\ resp[w].code = 400
        /\ pc[v] = "reload"
        /\ rq[v].op = "update_case_status"
        /\ StatusOfRequest(rq[v].op, rq[v].id) = "Closed"

\* C7: in each transition table every status a row holds has at least one
\* allowed next status, and every status of the entity is reachable from it
\* by successful updates.
C7_GraphsConnected ==
    /\ \A a \in DOMAIN alerts :
         /\ Successors(ALERT_TRANSITIONS, alerts[a].status) # {}
         /\ Reachable(ALERT_TRANSITIONS, alerts[a].status) = AlertStatuses
    /\ \A c \in DOMAIN cases :
         /\ Successors(CASE_TRANSITIONS, cases[c].status) # {}
         /\ Reachable(CASE_TRANSITIONS, cases[c].status) = CaseStatuses
    /\ \A d \in DOMAIN documents :
         /\ Successors(DOC_TRANSITIONS, documents[d].verification_status) # {}
         /\ Reachable(DOC_TRANSITIONS, documents[d].verification_status) = DocStatuses

\* successful updates have led an alert to Resolved, a case to Closed and a
\* document to Rejected, and the alert that was Dismissed has been reopened
C7_Witness ==
    /\ alerts[1].status = "Resolved"
    /\ cases[1].status = "Closed"
    /\ documents[1].verification_status = "Rejected"
    /\ alerts[2].status = "Open"
    /\ last.op = "update_alert_status" /\ last.code = 200 /\ last.id = "ALT-00019"

\* C8: a successful status update (200) overwrites the status of the row it
\* names and nothing else, and the entity it returns is that row with the
\* requested status and the owning customer's id and name.
C8_SuccessFrame ==
    [][(last'.op \in StatusUpdates /\ last'.code = 200) =>
         LET op == last'.op
             row == Lookup(op, last'.id)
             t == last'.arg
         IN  /\ UNCHANGED <<customers, notes, activity>>
             /\ last'.body.id = row
             /\ CASE op = "update_alert_status" ->
                       /\ alerts' = [alerts EXCEPT ![row].status = t]
                       /\ UNCHANGED <<cases, documents>>
                       /\ last'.body.alert_id = last'.id
                       /\ last'.body.status = t
                       /\ last'.body.customer_id
                            = customers[alerts[row].customer_id].customer_id
                  [] op = "update_case_status" ->
                       /\ cases' = [cases EXCEPT ![row].status = t]
                       /\ UNCHANGED <<alerts, documents>>
                       /\ last'.body.case_id = last'.id
                       /\ last'.body.status = t
                       /\ last'.body.customer_id
                            = customers[cases[row].customer_id].customer_id
                  [] op = "update_document_status" ->
                       /\ documents' = [documents EXCEPT ![row].verification_status = t]
                       /\ UNCHANGED <<alerts, cases>>
                       /\ last'.body.document_id = last'.id
                       /\ last'.body.verification_status = t
                       /\ last'.body.customer_id
                            = customers[documents[row].customer_id].customer_id]_vars

\* the first case was moved to Escalated while the second one stayed In Progress
C8_Witness ==
    /\ last.op = "update_case_status"
    /\ last.code = 200
    /\ last.id = "CAS-00001"
    /\ last.body.status = "Escalated"
    /\ cases[1].status = "Escalated"
    /\ cases[2].status = "In Progress"

ReadOps ==
    {"get_alert", "get_case", "get_document", "get_customer", "get_customer_alerts",
     "get_customer_documents", "get_customer_cases", "get_customer_activity",
     "get_case_notes", "global_search", "list_alerts", "list_cases",
     "list_documents", "list_customers", "list_jurisdictions", "list_activity",
     "get_stats", "get_risk_distribution", "quarterly_metrics"}

C10_NewNoteLast ==
    (last.op = "add_case_note" /\ last.code = 200) =>
        LET c == First(cases, "case_id", last.id)
            n == last.body.id
        IN  /\ \A rows \in NotesQuery(c) : rows[Cardinality(DOMAIN rows)] = n
            /\ notes[n].content = last.arg.content
            /\ last.body.content = last.arg.content
            /\ notes[n].analyst_name = IF last.arg.analyst = << >> THEN "Sarah Chen"
                                       ELSE last.arg.analyst[1]
            /\ last.body.analyst_name = notes[n].analyst_name

\* the external ids of a table, in row order
Ids(table, col) == [i \in DOMAIN table |-> table[i][col]]

\* C11: no request changes or removes a stored CaseNote (content, analyst name,
\* creation time and owning case stay what they were), and no request removes a
\* Customer, Alert, Document or Case: the rows of a step's start are rows of its
\* end, under the same ids
C11_NotesImmutable ==
    [][/\ \A n \in DOMAIN notes : n \in DOMAIN notes' /\ notes'[n] = notes[n]
       /\ Ids(customers', "customer_id") = Ids(customers, "customer_id")
       /\ Ids(alerts', "alert_id") = Ids(alerts, "alert_id")
       /\ Ids(documents', "document_id") = Ids(documents, "document_id")
       /\ Ids(cases', "case_id") = Ids(cases, "case_id")]_vars

\* a second note was added to the seeded one after the case was closed, and the
\* seeded note is still the first row
C11_Witness ==
    /\ Len(notes) = 3
    /\ notes[1] = SeedNotes[1]
    /\ cases[1].status = "Closed"
    /\ last.op = "add_case_note" /\ last.code = 200

\* C12: a note-creation request with empty content is answered with a
\* validation error (422) and stores no note
C12_EmptyContentRejected ==
    [][(last'.op = "add_case_note" /\ last'.arg.content = "") =>
         /\ last'.code = 422
         /\ notes' = notes]_vars

\* the table and the external-id column a request looks its id up in
LookupTable(op) ==
    CASE op \in {"get_alert", "update_alert_status"} -> alerts
      [] op \in {"get_case", "update_case_status", "get_case_notes", "add_case_note"}
           -> cases
      [] op \in {"get_document", "update_document_status"} -> documents
      [] OTHER -> customers

LookupColumn(op) ==
    CASE op \in {"get_alert", "update_alert_status"} -> "alert_id"
      [] op \in {"get_case", "update_case_status", "get_case_notes", "add_case_note"}
           -> "case_id"
      [] op \in {"get_document", "update_document_status"} -> "document_id"
      [] OTHER -> "customer_id"

LookupOps ==
    {"get_alert", "update_alert_status", "get_case", "update_case_status",
     "get_case_notes", "add_case_note", "get_document", "update_document_status",
     "get_customer", "get_customer_alerts", "get_customer_documents",
     "get_customer_cases", "get_customer_activity"}

\* C13: a get, status update or note creation whose external id matches no row
\* is answered NotFound (404) and leaves every table as it was, whatever status
\* or note body came with it; a request whose id matches a row is never
\* answered NotFound
C13_NotFound ==
    [][last'.op \in LookupOps =>
         IF First(LookupTable(last'.op), LookupColumn(last'.op), last'.id) = 0
         THEN last'.code = 404 /\ store' = store
         ELSE last'.code # 404]_vars

\* after a note was stored, a status update naming no case and asking for a
\* string that is no case status was answered NotFound
C13_Witness ==
    /\ Len(notes) = 2
    /\ last.op = "update_case_status"
    /\ last.id = "CAS-99999"
    /\ last.arg = "Resolved"
    /\ last.code = 404

ListOps == {"list_alerts", "list_cases", "list_documents", "list_customers"}

\* the categorical filter parameters of a list operation, each with the column
\* it is matched against
FilterColumns(op) ==
    CASE op = "list_alerts" ->
           {<<"severity", "severity">>, <<"status", "status">>,
            <<"alert_type", "alert_type">>}
      [] op = "list_cases" ->
           {<<"status", "status">>, <<"case_type", "case_type">>,
            <<"priority", "priority">>}
      [] op = "list_documents" ->
           {<<"status", "verification_status">>, <<"doc_type", "doc_type">>}
      [] op = "list_customers" ->
           {<<"risk_tier", "risk_tier">>, <<"kyc_status", "kyc_status">>,
            <<"jurisdiction", "jurisdiction">>}

ListedTable(op) ==
    CASE op = "list_alerts" -> alerts
      [] op = "list_cases" -> cases
      [] op = "list_documents" -> documents
      [] op = "list_customers" -> customers

\* the tokens of a filter value: split on commas, trimmed, empty ones dropped
FilterTokens(value) ==
    LET parts == Split(value, ",")
    IN  {Strip(parts[i]) : i \in DOMAIN parts} \ {""}

\* the rows a list request must return: those whose column is among the tokens,
\* for every filter parameter that has a token
FilteredRows(op, params) ==
    {i \in DOMAIN ListedTable(op) :
       \A f \in FilterColumns(op) :
          \/ FilterTokens(params[f[1]]) = {}
          \/ ListedTable(op)[i][f[2]] \in FilterTokens(params[f[1]])}

ReturnedRows(body) == {body.items[k].id : k \in DOMAIN body.items}

\* some filter parameter was sent with a value that holds no token
BlankFilter(op, params) ==
    \E f \in FilterColumns(op) :
       params[f[1]] # "" /\ FilterTokens(params[f[1]]) = {}

\* C14: a list request one of whose filter values is made of commas and blanks
\* only is answered as if that parameter were absent: the rows returned are the
\* rows that pass the other filters
C14_BlankFilterIgnored ==
    (last.op \in ListOps /\ last.arg.search = "" /\ BlankFilter(last.op, last.arg)) =>
        ReturnedRows(last.body) = FilteredRows(last.op, last.arg)

\* C15: a list request whose filter values are each empty or hold a token
\* returns exactly the rows whose column equals a token, for every parameter
\* that holds one; with every parameter empty it returns every row
C15_FilterExact ==
    (last.op \in ListOps /\ last.arg.search = "" /\ ~BlankFilter(last.op, last.arg)) =>
        /\ ReturnedRows(last.body) = FilteredRows(last.op, last.arg)
        /\ Cardinality(DOMAIN last.body.items) = Cardinality(ReturnedRows(last.body))

\* alerts were asked for with " High , Critical " and status Open, and the one
\* alert that is Critical and Open came back, the High one under review did not
C15_Witness ==
    /\ last.op = "list_alerts"
    /\ last.arg.severity = " High , Critical "
    /\ last.arg.status = "Open"
    /\ ReturnedRows(last.body) = {1}
    /\ alerts[2].severity = "High"

\* the sort whitelist and the default sort column of each list operation
Whitelist(op) ==
    CASE op = "list_alerts" -> AlertSortMap
      [] op = "list_cases" -> CaseSortMap
      [] op = "list_documents" -> DocumentSortMap
      [] op = "list_customers" -> SORTABLE_COLUMNS

DefaultColumn(op) ==
    CASE op = "list_alerts" -> "alert_id"
      [] op = "list_cases" -> "case_id"
      [] op = "list_documents" -> "expiry_date"
      [] op = "list_customers" -> "customer_id"

\* the column's value in the stored row of the k-th returned item
ItemValue(op, body, k, col) == ListedTable(op)[body.items[k].id][col]

IsNull(op, body, k, col) ==
    col \in DateColumns /\ ItemValue(op, body, k, col) = NULL

ItemKey(op, body, k, col) == SortKey(ListedTable(op)[body.items[k].id], col)

\* the items that have a value in the column come in ascending (descending)
\* order of it
Ascending(op, body, col) ==
    \A j, k \in DOMAIN body.items :
       (j < k /\ ~IsNull(op, body, j, col) /\ ~IsNull(op, body, k, col)) =>
           ItemKey(op, body, j, col) <= ItemKey(op, body, k, col)

Descending(op, body, col) ==
    \A j, k \in DOMAIN body.items :
       (j < k /\ ~IsNull(op, body, j, col) /\ ~IsNull(op, body, k, col)) =>
           ItemKey(op, body, j, col) >= ItemKey(op, body, k, col)

\* C16: a list request whose sort_by is absent (the default column) or outside
\* the whitelist is ordered by the default column, descending when sort_order is
\* exactly "desc" and ascending otherwise
C16_SortFallback ==
    (/\ last.op \in ListOps
     /\ \/ last.arg.sort_by \notin Whitelist(last.op)
        \/ last.arg.sort_by = DefaultColumn(last.op)) =>
        IF last.arg.sort_order = "desc"
        THEN Descending(last.op, last.body, DefaultColumn(last.op))
        ELSE Ascending(last.op, last.body, DefaultColumn(last.op))

\* the column a list request is ordered by
SortColumn(op, sort_by) ==
    IF sort_by \in Whitelist(op) THEN sort_by ELSE DefaultColumn(op)

\* C17: a list request whose sort_order is anything but "desc" is answered in
\* ascending order of its sort column
C17_UnknownOrderAscending ==
    (last.op \in ListOps /\ last.arg.sort_order # "desc") =>
        Ascending(last.op, last.body, SortColumn(last.op, last.arg.sort_by))

NullsLast(op, body, col) ==
    \A j, k \in DOMAIN body.items :
       (IsNull(op, body, j, col) /\ ~IsNull(op, body, k, col)) => k < j

NullsFirst(op, body, col) ==
    \A j, k \in DOMAIN body.items :
       (IsNull(op, body, j, col) /\ ~IsNull(op, body, k, col)) => j < k

\* C18: a document list ordered by expiry_date, asked for or fallen back to,
\* is either ascending with every document without expiry date after all the
\* others, or descending with every such document before all the others; it is
\* the first for sort_order "asc" and the second for "desc"
C18_NullExpiryPlacement ==
    (/\ last.op = "list_documents"
     /\ SortColumn(last.op, last.arg.sort_by) = "expiry_date") =>
        LET asc == /\ Ascending(last.op, last.body, "expiry_date")
                   /\ NullsLast(last.op, last.body, "expiry_date")
            desc == /\ Descending(last.op, last.body, "expiry_date")
                    /\ NullsFirst(last.op, last.body, "expiry_date")
        IN  /\ asc \/ desc
            /\ last.arg.sort_order = "asc" => asc
            /\ last.arg.sort_order = "desc" => desc

\* three documents, the second without expiry date, were listed by the fallback
\* column in descending order: the one without expiry date came first and the
\* one expiring soonest last
C18_Witness ==
    /\ last.op = "list_documents"
    /\ last.arg.sort_by = "bogus"
    /\ last.arg.sort_order = "desc"
    /\ Len(documents) = 3
    /\ documents[2].expiry_date = NULL
    /\ documents[3].expiry_date # NULL
    /\ last.body.items[1].id = 2
    /\ last.body.items[3].id = 1

\* whether the text holds the query as a substring, letter case apart
Holds(text, q) == Contains(Lower(text), Lower(q))

SearchLists == {"customers", "alerts", "cases", "documents"}

ItemMatches(list, item, q) ==
    CASE list = "customers" ->
           \/ Holds(customers[item.id].customer_id, q)
           \/ Holds(customers[item.id].legal_name, q)
           \/ Holds(customers[item.id].assigned_analyst, q)
      [] list = "alerts" ->
           \/ Holds(alerts[item.id].alert_id, q)
           \/ Holds(alerts[item.id].assigned_analyst, q)
           \/ Holds(customers[alerts[item.id].customer_id].legal_name, q)
      [] list = "cases" ->
           \/ Holds(cases[item.id].case_id, q)
           \/ Holds(cases[item.id].assigned_analyst, q)
           \/ Holds(customers[cases[item.id].customer_id].legal_name, q)
      [] list = "documents" ->
           \/ Holds(documents[item.id].document_id, q)
           \/ Holds(customers[documents[item.id].customer_id].legal_name, q)

\* C19: global search rejects a query of fewer than 2 characters and returns no
\* list for it; for a longer query it answers without error with the four lists
\* customers, alerts, cases and documents, each of at most 8 items, every item
\* holding the query as a substring of one of its searched fields (so that the
\* four lists are empty when nothing matches)
C19_SearchContract ==
    last.op = "global_search" =>
        IF Len(last.id) < 2
        THEN last.code = 422 /\ DOMAIN last.body \cap SearchLists = {}
        ELSE /\ last.code = 200
             /\ DOMAIN last.body = SearchLists
             /\ \A list \in SearchLists :
                    /\ Cardinality(last.body[list]) <= 8
                    /\ \A item \in last.body[list] :
                           ItemMatches(list, item, last.id)

\* the alerts of one severity created in one calendar month
CreatedIn(year, month, severity) ==
    {i \in DOMAIN alerts :
       /\ alerts[i].severity = severity
       /\ Civil(alerts[i].created_date).year = year
       /\ Civil(alerts[i].created_date).month = month}

\* C20: whatever the current date, the alert trend has exactly 6 entries, the
\* k-th being for the calendar month 6 - k months before the current one (oldest
\* first, the year one less for the months before January), and every entry has
\* the keys Critical, High, Medium and Low, each the number of alerts of that
\* severity created in the entry's month
C20_AlertTrend ==
    last.op = "get_alert_trend" =>
        LET today == last.arg.today
            this == 12 * today.year + (today.month - 1)
        IN  /\ Len(last.body) = 6
            /\ \A k \in 1..6 :
                   LET n == this - (6 - k)
                       year == n \div 12
                       month == (n % 12) + 1
                   IN  /\ last.body[k].year = year
                       /\ last.body[k].month = month_names[month]
                       /\ {"Critical", "High", "Medium", "Low"}
                             \subseteq DOMAIN last.body[k]
                       /\ \A severity \in {"Critical", "High", "Medium", "Low"} :
                              last.body[k][severity]
                                = Cardinality(CreatedIn(year, month, severity))

\* the trend asked for in March 2024 over the nine-row table: it starts in
\* October 2023, and January 2024 counts three Critical alerts
C20_Witness ==
    /\ last.op = "get_alert_trend"
    /\ last.arg.today.year = 2024 /\ last.arg.today.month = 3
    /\ last.body[1].year = 2023 /\ last.body[1].month = "Oct"
    /\ last.body[4].month = "Jan" /\ last.body[4].Critical = 3
    /\ last.body[4].Low = 0

\* C21 as stated: high_risk_rate is 0 for a store with no customers and is
\* otherwise exactly the high-risk count divided by the customer count times
\* 100, between 0 and 100
C21_ExactRate ==
    last.op = "get_kpis" =>
        /\ last.code = 200
        /\ IF Len(customers) = 0 THEN last.body.high_risk_rate_tenths = 0
           ELSE last.body.high_risk_rate_tenths * Len(customers)
                  = 1000 * Cardinality({i \in DOMAIN customers :
                                          customers[i].risk_tier = "High"})
        /\ last.body.high_risk_rate_tenths \in 0..1000

\* C21, amended: high_risk_rate is 0 for a store with no customers and is
\* otherwise the high-risk count divided by the customer count times 100 rounded
\* to one decimal (a tenth nearest to the quotient), between 0 and 100
C21_RoundedRate ==
    last.op = "get_kpis" =>
        LET high == Cardinality({i \in DOMAIN customers :
                                   customers[i].risk_tier = "High"})
            total == Len(customers)
            tenths == last.body.high_risk_rate_tenths
            off == tenths * total - 1000 * high
        IN  /\ last.code = 200
            /\ IF total = 0 THEN tenths = 0
               ELSE 2 * off <= total /\ 2 * off >= 0 - total
            /\ tenths \in 0..1000

\* the KPIs of a store without customers: the rate is 0
C21_Witness ==
    /\ last.op = "get_kpis"
    /\ Len(customers) = 0
    /\ last.code = 200
    /\ last.body.high_risk_rate_tenths = 0
    /\ last.body.total_customers = 0

OpenCritical(table) ==
    Cardinality({i \in DOMAIN table :
                   /\ table[i].severity = "Critical"
                   /\ table[i].status \in {"Open", "Under Review"}})

\* C22: the KPI open_critical_alerts is the number of stored alerts of severity
\* Critical whose status is Open or Under Review; a successful status update
\* that takes a Critical alert into or out of these two statuses changes that
\* number by exactly one, and every other update, a rejected one included,
\* leaves it as it is
C22_OpenCriticalCount ==
    [][/\ last'.op = "get_kpis" =>
            last'.body.open_critical_alerts = OpenCritical(alerts')
       /\ last'.op = "update_alert_status" =>
            LET a == First(alerts, "alert_id", last'.id)
                was == a # 0 /\ alerts[a].severity = "Critical"
                         /\ alerts[a].status \in {"Open", "Under Review"}
                is == a # 0 /\ alerts'[a].severity = "Critical"
                        /\ alerts'[a].status \in {"Open", "Under Review"}
            IN  IF last'.code # 200 THEN OpenCritical(alerts') = OpenCritical(alerts)
                ELSE IF was /\ ~is
                THEN OpenCritical(alerts') = OpenCritical(alerts) - 1
                ELSE IF is /\ ~was
                THEN OpenCritical(alerts') = OpenCritical(alerts) + 1
                ELSE OpenCritical(alerts') = OpenCritical(alerts)]_vars

\* the KPIs asked for after the only Critical alert was resolved or dismissed
C22_Witness ==
    /\ last.op = "get_kpis"
    /\ Len(alerts) = 2
    /\ alerts[1].severity = "Critical"
    /\ alerts[1].status \in {"Resolved", "Dismissed"}
    /\ last.body.open_critical_alerts = 0

\* C26: whatever the current date, the resolution-rate report has six entries,
\* the k-th labelled with the calendar month 6 - k months before the current
\* one: the six most recent months, oldest first, none repeated, none skipped
C26_SixRecentMonths ==
    last.op = "resolution_rate" =>
        LET today == last.arg.today
            this == 12 * today.year + (today.month - 1)
        IN  /\ Len(last.body) = 6
            /\ \A k \in 1..6 :
                   LET n == this - (6 - k)
                   IN  /\ last.body[k].month.year = n \div 12
                       /\ last.body[k].month.month = month_names[(n % 12) + 1]

\* C28: every operation that computes a percentage answers without an error,
\* whatever the store holds
C28_NoDivisionByZero ==
    last.op \in {"get_kpis", "quarterly_metrics", "resolution_rate",
                 "compliance_narrative"}
        => last.code = 200

\* C29: every Q4 value of the quarterly metrics is at least 0
C29_Q4NonNegative ==
    (last.op = "quarterly_metrics" /\ last.code = 200) =>
        \A metric \in DOMAIN last.body : last.body[metric].Q4 >= 0

\* C27: the seed runs only when the database is empty: a database that holds
\* any record before the seeding check still holds every one of them after it
Keeps(before, after) ==
    \A i \in DOMAIN before : \E j \in DOMAIN after : after[j] = before[i]

C30_StartupRetries ==
    /\ [](boot.calls <= 5)
    /\ [](boot.pc = "seed_check" => boot.tables)
    /\ [][boot.pc = "create_all" =>
             /\ boot'.calls = boot.calls + 1
             /\ \/ boot'.tables /\ boot'.pc = "seed_check"
                \/ /\ ~boot'.tables
                   /\ boot'.calls < 5
                   /\ boot'.pc = "create_all"
                \/ /\ ~boot'.tables
                   /\ boot'.calls = 5
                   /\ boot'.pc = "raised"]_vars
    /\ [][boot.pc # "raised"]_vars
    /\ <>(boot.pc \in {"serving", "raised"})

\* the fifth attempt has failed and the exception has left the lifespan
C30_Witness == boot.pc = "raised" /\ boot.calls = 5 /\ ~boot.tables

\* the frames of the response as the client reads them: the bytes sent, cut at
\* every blank line
RECURSIVE Concat(_)
Concat(frames) == IF frames = <<>> THEN "" ELSE Head(frames) \o Concat(Tail(frames))

RECURSIVE Events(_)
Events(wire) ==
    LET at == {i \in 1..(Len(wire) - 1) : SubSeq(wire, i, i + 1) = "\n\n"}
    IN  IF at = {} THEN IF wire = "" THEN <<>> ELSE <<wire>>
        ELSE LET i == CHOOSE i \in at : \A j \in at : i <= j
             IN  <<SubSeq(wire, 1, i - 1)>> \o Events(SubSeq(wire, i + 2, Len(wire)))

TextPrefix == "data: {\"text\": \""
ErrorPrefix == "data: {\"error\": \""
DoneEvent == "data: [DONE]"
IsTextEvent(ev) == Len(ev) >= Len(TextPrefix) /\ SubSeq(ev, 1, Len(TextPrefix)) = TextPrefix
IsErrorEvent(ev) == Len(ev) >= Len(ErrorPrefix) /\ SubSeq(ev, 1, Len(ErrorPrefix)) = ErrorPrefix

\* the JSON string that starts at position i of an event and ends the object
Invalid == [ok |-> FALSE, value |-> ""]
RECURSIVE ScanString(_, _, _)
ScanString(ev, i, acc) ==
    IF i > Len(ev) THEN Invalid
    ELSE LET c == Char(ev, i) IN
         IF c = "\""
         THEN IF i = Len(ev) - 1 /\ Char(ev, Len(ev)) = "}"
              THEN [ok |-> TRUE, value |-> acc] ELSE Invalid
         ELSE IF c = "\n" THEN Invalid
         ELSE IF c = "\\"
         THEN IF i + 1 > Len(ev) THEN Invalid
              ELSE LET e == Char(ev, i + 1) IN
                   IF e = "n" THEN ScanString(ev, i + 2, acc \o "\n")
                   ELSE IF e \in {"\"", "\\"} THEN ScanString(ev, i + 2, acc \o e)
                   ELSE Invalid
         ELSE ScanString(ev, i + 1, acc \o c)

TextOf(ev) == ScanString(ev, Len(TextPrefix) + 1, "")

C24_DisconnectReleases ==
    /\ [][stream.observed => stream'.out = stream.out]_vars
    /\ [](stream.observed => stream.upstream # "open")
    /\ (~stream.connected ~> stream.upstream # "open")

\* the disconnection observed with a fragment relayed and the upstream closed
C24_Witness ==
    /\ stream.observed
    /\ stream.upstream = "closed"
    /\ Len(stream.up) >= 1

\* C25: the text events the client reads are the upstream fragments, one
\* event for each, in order, each decoding to the text of its fragment, and
\* a fragment once sent is never changed
C25_RelayInOrder ==
    /\ [](LET evs == Events(Concat(stream.out))
              texts == SelectSeq(evs, IsTextEvent)
          IN  /\ Len(evs) = Len(stream.out)
              /\ Len(texts) = Len(stream.up)
              /\ \A i \in 1..Len(texts) :
                     TextOf(texts[i]) = [ok |-> TRUE, value |-> stream.up[i]])
    /\ [][/\ Len(stream'.out) >= Len(stream.out)
          /\ SubSeq(stream'.out, 1, Len(stream.out)) = stream.out]_vars

\* three fragments relayed, among them the empty one and one with quotes
C25_Witness ==
    /\ Len(stream.up) = 3
    /\ Len(stream.out) >= 3
    /\ \E i, j \in 1..3 : stream.up[i] = "" /\ stream.up[j] = "\"High\""
====
